---------------------------- MODULE Spec2Model ----------------------------
(* Model of val-discord-status: the transport layer (_make_rpc_request,    *)
(* _execute_solana_cli_command), the fetchers, the aggregator              *)
(* (process_validator_data), the reporter (report_validator_status,        *)
(* format_and_send_status, send_discord_message) and main.                 *)
EXTENDS Integers, Sequences, FiniteSets, TLC

VARIABLES
    cfg,        \* config.toml as read by core/config.py
    pc,         \* position of the run in main / report_validator_status / process_validator_data
    loc,        \* local variables of process_validator_data, as last assigned
    issued,     \* names of the fetches whose transport was invoked, in order
    failed,     \* <<fetch, "exhausted">>: its transport raised; <<fetch, "shape">>:
                \* the answer did not have the shape the fetch is documented to return
    last,       \* requests.post / subprocess.run calls and sleeps of the last transport call
    rec,        \* data_to_report: return value of process_validator_data
    posts,      \* number of requests.post calls made to the webhook
    sent,       \* outcome of format_and_send_status, or the exception that reached main
    exitCode,   \* exit status of the process
    tr,         \* one transport call in progress (transport specification)
    calc,       \* one call of a calculation (calculation specification)
    twin        \* two calls of process_validator_data on the same responses
                \* (repeated-run specification): which call is running, the
                \* responses of the first call and what it returned

vars == <<cfg, pc, loc, issued, failed, last, rec, posts, sent, exitCode, tr, calc, twin>>

(***************************************************************************)
(* Bounds of the model.                                                    *)
(***************************************************************************)
MaxEndpoints == 2
MaxRetries == 1

Null == [k |-> "null"]

(***************************************************************************)
(* Transport layer: _make_rpc_request.                                     *)
(* An endpoint answer is [exc, error, result]: exc is the exception raised *)
(* by requests.post / raise_for_status / response.json ("none" if none),   *)
(* error says whether the decoded body carries an "error" field.           *)
(***************************************************************************)
RpcExceptions == {"Timeout", "HTTPError", "RequestException", "JSONDecodeError"}

RpcFailureAnswers ==
    {[exc |-> e, error |-> FALSE, result |-> Null] : e \in RpcExceptions}
      \cup {[exc |-> "none", error |-> TRUE, result |-> Null]}

RpcOkAnswer(v) == [exc |-> "none", error |-> FALSE, result |-> v]

\* What the transport did, in order: a requests.post, a time.sleep, a
\* subprocess.run; val is the value a successful call delivered
PostEvent(url, a) ==
    [ev |-> "post", url |-> url, ok |-> a.exc = "none" /\ ~a.error, val |-> a.result]
SleepEvent == [ev |-> "sleep", url |-> 0, ok |-> FALSE, val |-> Null]
RunEvent(url, a) ==
    [ev |-> "run", url |-> url, ok |-> a.exc = "none", val |-> a.stdout]

\* how an endpoint answered: the exception the request raised, "error" for a
\* decoded body with an "error" field, "none" for a result
AnswerKind(a) == IF a.exc # "none" THEN a.exc ELSE IF a.error THEN "error" ELSE "none"

get_rpc_max_retries(c) == c.retries

\* Mutant of max_attempts: one pass too many.
max_attempts_OneMore(c) == get_rpc_max_retries(c) + 2

\* fetch_data.py:51
max_attempts(c) == get_rpc_max_retries(c) + 1

RpcBegin(method, n) ==
    [kind |-> "rpc", method |-> method, attempt |-> 0, url |-> 1,
     errs |-> [u \in 1..n |-> "none"], log |-> <<>>,
     answered |-> [u \in 1..n |-> "none"],
     phase |-> IF n = 0 THEN "pass_end" ELSE "post",
     result |-> Null, summary |-> <<>>]

\* fetch_data.py:64: a decoded body is a success only without an "error" field
RpcAnswerOk(a) == a.exc = "none" /\ ~a.error

RpcRecordedError(a) == IF a.exc # "none" THEN a.exc ELSE "RuntimeError"

RpcNextUrl(t, n) ==
    IF t.url < n THEN [t EXCEPT !.url = @ + 1] ELSE [t EXCEPT !.phase = "pass_end"]

\* Mutant of RpcOnSuccess: the result is kept but the endpoint loop goes on.
RpcOnSuccess_NoReturn(t, a, n) == RpcNextUrl([t EXCEPT !.result = a.result], n)

\* fetch_data.py:69-70: return result_json.get("result")
RpcOnSuccess(t, a, n) == [t EXCEPT !.phase = "returned", !.result = a.result]

\* Mutant of RpcOnFailure: the first failure of an endpoint is kept.
RpcOnFailure_KeepFirst(t, a, n) ==
    RpcNextUrl(IF t.errs[t.url] = "none"
               THEN [t EXCEPT !.errs[t.url] = RpcRecordedError(a)] ELSE t, n)

\* fetch_data.py:65-67, 71-86: record the failure under the endpoint, go on
RpcOnFailure(t, a, n) ==
    RpcNextUrl([t EXCEPT !.errs[t.url] = RpcRecordedError(a)], n)

\* fetch_data.py:58-86: one iteration of the endpoint loop
RpcPostStep(t, a, n) ==
    LET t1 == [t EXCEPT !.log = Append(@, PostEvent(t.url, a)),
                        !.answered[t.url] = IF AnswerKind(a) = "none" THEN @
                                            ELSE AnswerKind(a)]
    IN  IF RpcAnswerOk(a) THEN RpcOnSuccess(t1, a, n) ELSE RpcOnFailure(t1, a, n)

\* Mutant of RpcSleepsAfterPass: sleeps after the final pass as well.
RpcSleepsAfterPass_Always(attempt, maxAtt) == attempt < maxAtt

\* fetch_data.py:88: if attempt < max_attempts - 1
RpcSleepsAfterPass(attempt, maxAtt) == attempt < maxAtt - 1

\* fetch_data.py:88-104: end of a fully failed pass: sleep and start the next
\* pass from the first endpoint, or leave the loop and raise
RpcPassEndStep(t, maxAtt, n) ==
    LET t1 == IF RpcSleepsAfterPass(t.attempt, maxAtt)
              THEN [t EXCEPT !.log = Append(@, SleepEvent)]
              ELSE t
    IN  IF t.attempt + 1 < maxAtt
        THEN [t1 EXCEPT !.attempt = @ + 1, !.url = 1,
                        !.phase = IF n = 0 THEN "pass_end" ELSE "post"]
        ELSE [t1 EXCEPT !.phase = "raised", !.summary = t.errs]

\* _make_rpc_request run to its end on the answers the endpoints give, in the
\* order they are asked: answers[i] is the answer to the i-th requests.post
RECURSIVE RpcRun(_, _, _, _)
RpcRun(t, answers, maxAtt, n) ==
    IF t.phase = "post"
    THEN RpcRun(RpcPostStep(t, Head(answers), n), Tail(answers), maxAtt, n)
    ELSE IF t.phase = "pass_end"
    THEN RpcRun(RpcPassEndStep(t, maxAtt, n), answers, maxAtt, n)
    ELSE t

_make_rpc_request(c, method, answers) ==
    RpcRun(RpcBegin(method, c.urls), answers, max_attempts(c), c.urls)

EventCount(log, ev) == Cardinality({i \in 1..Len(log) : log[i].ev = ev})

(***************************************************************************)
(* Transport layer: _execute_solana_cli_command.                           *)
(* A subprocess answer is [exc, stdout].                                   *)
(***************************************************************************)
CliExceptions == {"CalledProcessError", "TimeoutExpired", "Exception"}

CliFailureAnswers == {[exc |-> e, stdout |-> Null] : e \in CliExceptions}

CliOkAnswer(out) == [exc |-> "none", stdout |-> out]

CliBegin(command, n) ==
    [kind |-> "cli", method |-> command, url |-> 1, log |-> <<>>,
     phase |-> IF n = 0 THEN "raised" ELSE "run", result |-> Null]

\* Mutant of CliOnFailure: a failed pass over the endpoints starts over once.
CliOnFailure_Retry(t, n) ==
    IF t.url < n THEN [t EXCEPT !.url = @ + 1]
    ELSE IF Len(t.log) < 2 * n THEN [t EXCEPT !.url = 1]
    ELSE [t EXCEPT !.phase = "raised"]

\* fetch_data.py:125-132: log, try the next endpoint; after the last one raise
CliOnFailure(t, n) ==
    IF t.url < n THEN [t EXCEPT !.url = @ + 1] ELSE [t EXCEPT !.phase = "raised"]

\* fetch_data.py:114-130: one iteration of the endpoint loop
CliRunStep(t, a, n) ==
    LET t1 == [t EXCEPT !.log = Append(@, RunEvent(t.url, a))]
    IN  IF a.exc = "none"
        THEN [t1 EXCEPT !.phase = "returned", !.result = a.stdout]
        ELSE CliOnFailure(t1, n)

RECURSIVE CliRun(_, _, _)
CliRun(t, answers, n) ==
    IF t.phase = "run"
    THEN CliRun(CliRunStep(t, Head(answers), n), Tail(answers), n)
    ELSE t

_execute_solana_cli_command(c, command, answers) ==
    CliRun(CliBegin(command, c.urls), answers, c.urls)

(***************************************************************************)
(* Configuration (core/config.py).                                         *)
(***************************************************************************)
\* [discord].webhook_url: not in the file, the empty string, or a URL
Webhooks == {"missing", "empty", "set"}

\* config.toml: urls is the length of [rpc_urls].urls_<cluster>, retries is
\* [rpc_settings].rpc_max_retries, the two keys say whether urls_<cluster>
\* and identity_<cluster> are in the file
Config(urls_key, urls, identity_key, retries) ==
    [urls_key |-> urls_key, urls |-> urls, identity_key |-> identity_key,
     retries |-> retries]

\* both cluster keys present and a non-empty URL list
GoodConfigs ==
    {Config(TRUE, n, TRUE, r) : n \in 1..MaxEndpoints, r \in 0..MaxRetries}

BadConfigs ==
    {Config(FALSE, 0, TRUE, MaxRetries), Config(TRUE, MaxEndpoints, FALSE, MaxRetries),
     Config(TRUE, 0, TRUE, MaxRetries)}

Idle == [kind |-> "none"]
NoLocals == [k |-> "none"]
NoReport == [k |-> "None"]
NoCall == [calls |-> 0, sleeps |-> 0]
NoReplay == [run |-> 0, tape |-> <<>>, odd |-> 0, first |-> NoReport, diverged |-> FALSE]

(***************************************************************************)
(* Values.  Strings the code slices or compares are sequences of           *)
(* characters.  A field that holds a number or the string 'N/A' is IntV(n) *)
(* or StrV(s).  A float computed as a quotient is kept as the exact        *)
(* fraction [num, den].                                                    *)
(***************************************************************************)
NA == <<"N", "/", "A">>
UnknownName == <<"U", "n", "k", "n", "o", "w", "n">>
NullName == <<"n", "u", "l", "l">>
Ellipsis == <<".", ".", ".">>

IntV(n) == [k |-> "int", n |-> n]
StrV(s) == [k |-> "str", s |-> s]
FloatV(f) == [k |-> "float", f |-> f]
IsInt(x) == x.k = "int"
\* isinstance(x, (int, float))
IsNumber(x) == x.k \in {"int", "float"}

Frac(n, d) == [num |-> n, den |-> d]

LAMPORTS_PER_SOL == 1000000000

\* x / LAMPORTS_PER_SOL
Sol(lamports) == Frac(lamports, LAMPORTS_PER_SOL)

Return(v) == [exc |-> "none", val |-> v]
Raise(e) == [exc |-> e, val |-> Null]

IsNull(x) == x.k = "null"

(***************************************************************************)
(* Fetchers: what each returns or raises, given the finished transport     *)
(* call t (phase "returned" with t.result, or phase "raised").             *)
(***************************************************************************)
IsList(x) == ~IsNull(x) /\ x.k = "list"
IsDict(x) == ~IsNull(x) /\ x.k = "dict"

List(items) == [k |-> "list", items |-> items]

get_vote_accounts_rpc(t) ==
    IF t.phase = "raised" THEN Raise("RuntimeError") ELSE Return(t.result)

get_epoch_info_rpc(t) ==
    IF t.phase = "raised" THEN Raise("RuntimeError") ELSE Return(t.result)

\* Mutant of get_cluster_nodes_rpc: an empty list stands in for a failed fetch.
get_cluster_nodes_rpc_Fallback(t) ==
    IF t.phase = "raised" THEN Return(List(<<>>))
    ELSE IF ~IsList(t.result) THEN Return(List(<<>>))
    ELSE Return(t.result)

get_cluster_nodes_rpc(t) ==
    IF t.phase = "raised" THEN Raise("RuntimeError")
    ELSE IF ~IsList(t.result) THEN Raise("RuntimeError")
    ELSE Return(t.result)

\* Mutant of get_leader_schedule_rpc: a result that is no mapping raises
\* TypeError instead of RuntimeError.
get_leader_schedule_rpc_TypeError(t) ==
    IF t.phase = "raised" THEN Raise("RuntimeError")
    ELSE IF ~IsDict(t.result) THEN Raise("TypeError")
    ELSE Return(t.result)

get_leader_schedule_rpc(t) ==
    IF t.phase = "raised" THEN Raise("RuntimeError")
    ELSE IF ~IsDict(t.result) THEN Raise("RuntimeError")
    ELSE Return(t.result)

\* Mutant of get_block_production_rpc: a result that is no mapping raises
\* TypeError instead of RuntimeError.
get_block_production_rpc_TypeError(t) ==
    IF t.phase = "raised" THEN Raise("RuntimeError")
    ELSE IF ~IsDict(t.result) THEN Raise("TypeError")
    ELSE Return(t.result)

get_block_production_rpc(t) ==
    IF t.phase = "raised" THEN Raise("RuntimeError")
    ELSE IF ~IsDict(t.result) THEN Raise("RuntimeError")
    ELSE Return(t.result)

get_recent_performance_samples_rpc(t) ==
    IF t.phase = "raised" THEN Raise("RuntimeError")
    ELSE IF ~IsList(t.result) THEN Return(List(<<>>))
    ELSE Return(t.result)

\* get_balance_rpc once the pubkey is not empty: lamports, or None
get_balance_rpc(t) ==
    IF t.phase = "raised" THEN Return(Null)
    ELSE IF IsNull(t.result) THEN Return(Null)
    ELSE IF ~IsDict(t.result) THEN Raise("AttributeError")
    ELSE IF IsInt(t.result.value) THEN Return(t.result.value)
    ELSE Return(Null)

\* stdout of the CLI is text: "malformed" stands for output json.loads rejects
Malformed == [k |-> "malformed"]

\* Mutant of get_validator_info_cli: output that is no JSON gives an empty list.
get_validator_info_cli_EmptyOnError(t) ==
    IF t.phase = "raised" THEN Raise("RuntimeError")
    ELSE IF t.result.k = "malformed" THEN Return(List(<<>>))
    ELSE Return(t.result)

get_validator_info_cli(t) ==
    IF t.phase = "raised" THEN Raise("RuntimeError")
    ELSE IF t.result.k = "malformed" THEN Raise("RuntimeError")
    ELSE Return(t.result)

\* Mutant of _get_validator_stake_info_cli: the transport failure is not caught.
StakeInfoCli_Propagates(t) ==
    IF t.phase = "raised" THEN Raise("RuntimeError")
    ELSE IF t.result.k = "malformed" THEN Return(List(<<>>))
    ELSE Return(t.result)

_get_validator_stake_info_cli(t) ==
    IF t.phase = "raised" THEN Return(List(<<>>))
    ELSE IF t.result.k = "malformed" THEN Return(List(<<>>))
    ELSE Return(t.result)

(***************************************************************************)
(* Metrics calculators.                                                    *)
(***************************************************************************)
RECURSIVE SumOver(_, _)
SumOver(seq, field) ==
    IF seq = <<>> THEN 0 ELSE Head(seq)[field] + SumOver(Tail(seq), field)

\* account.get(field, 0): a field of a stake account is an int or missing
StakeField(account, field) ==
    IF account[field].k = "int" THEN account[field].n ELSE 0

RECURSIVE SumStake(_, _)
SumStake(seq, field) ==
    IF seq = <<>> THEN 0 ELSE StakeField(Head(seq), field) + SumStake(Tail(seq), field)

\* Mutant of SumActivating: the difference is added whatever its sign.
RECURSIVE SumActivating_Unclamped(_)
SumActivating_Unclamped(seq) ==
    IF seq = <<>> THEN 0
    ELSE (StakeField(Head(seq), "delegatedStake") - StakeField(Head(seq), "activeStake"))
         + SumActivating_Unclamped(Tail(seq))

RECURSIVE SumActivating(_)
SumActivating(seq) ==
    IF seq = <<>> THEN 0
    ELSE (IF StakeField(Head(seq), "delegatedStake") - StakeField(Head(seq), "activeStake") > 0
          THEN StakeField(Head(seq), "delegatedStake") - StakeField(Head(seq), "activeStake")
          ELSE 0)
         + SumActivating(Tail(seq))

\* the five values are the lamport totals over LAMPORTS_PER_SOL
_calculate_stake_metrics_from_data(stake_data) ==
    IF stake_data.items = <<>>
    THEN [total_active_stake_sol |-> Sol(0), total_delegated_stake_sol |-> Sol(0),
          stake_activating_sol |-> Sol(0), stake_deactivating_sol |-> Sol(0),
          net_stake_change_sol |-> Sol(0)]
    ELSE LET active == SumStake(stake_data.items, "activeStake")
             delegated == SumStake(stake_data.items, "delegatedStake")
             deactivating == SumStake(stake_data.items, "deactivatingStake")
             activating == SumActivating(stake_data.items)
         IN  [total_active_stake_sol |-> Sol(active),
              total_delegated_stake_sol |-> Sol(delegated),
              stake_activating_sol |-> Sol(activating),
              stake_deactivating_sol |-> Sol(deactivating),
              net_stake_change_sol |-> Sol(activating - deactivating)]

AllZeroStake(m) ==
    /\ m.total_active_stake_sol.num = 0
    /\ m.total_delegated_stake_sol.num = 0
    /\ m.stake_activating_sol.num = 0
    /\ m.stake_deactivating_sol.num = 0
    /\ m.net_stake_change_sol.num = 0

SecondsPerDay == 86400
SecondsPerHour == 3600
SecondsPerMinute == 60

\* avg_slot_time_seconds = 0.4
DefaultSlotTime == Frac(2, 5)

\* fetch_data.py:310-323: average slot time from the samples, or the default
AverageSlotTime(performance_samples) ==
    LET Valid(sm) == sm.numSlots > 0 /\ sm.samplePeriodSecs.k = "int"
        valid_samples == SelectSeq(performance_samples.items, Valid)
        secs == [i \in 1..Len(valid_samples) |->
                    [samplePeriodSecs |-> valid_samples[i].samplePeriodSecs.n]]
        total_slots == SumOver(valid_samples, "numSlots")
        total_time_secs == SumOver(secs, "samplePeriodSecs")
    IN  IF performance_samples.items # <<>> /\ valid_samples # <<>> /\ total_slots > 0
        THEN Frac(total_time_secs, total_slots)
        ELSE DefaultSlotTime

Part(n, unit) == [n |-> n, unit |-> unit, plural |-> n # 1]

\* fetch_data.py:325-346: the remaining time as the list of rendered parts, or
\* one of the two fixed strings.  time_remaining_seconds is
\* remaining_slots * avg, kept exact as a multiple of 1/avg.den seconds.
TimeLeft(remaining_slots, avg, percent_complete) ==
    LET total == remaining_slots * avg.num
        days == total \div (SecondsPerDay * avg.den)
        r1 == total % (SecondsPerDay * avg.den)
        hours == r1 \div (SecondsPerHour * avg.den)
        r2 == r1 % (SecondsPerHour * avg.den)
        minutes == r2 \div (SecondsPerMinute * avg.den)
        seconds == r2 % (SecondsPerMinute * avg.den)
        big == (IF days > 0 THEN <<Part(days, "day")>> ELSE <<>>)
               \o (IF hours > 0 THEN <<Part(hours, "hour")>> ELSE <<>>)
               \o (IF minutes > 0 THEN <<Part(minutes, "min")>> ELSE <<>>)
        parts == IF big = <<>> /\ seconds > 0
                 THEN <<Part(seconds \div avg.den, "sec")>> ELSE big
    IN  IF parts = <<>>
        THEN (IF percent_complete.num * 10 > 999 * percent_complete.den
              THEN [k |-> "text", text |-> "Nearly complete"]
              ELSE [k |-> "text", text |-> "Calculating..."])
        ELSE [k |-> "parts", parts |-> parts]

\* _calculate_epoch_progress before its fetch: whether the early return of
\* line 301-303 is taken
EpochFieldsInvalid(epoch_info) ==
    \/ epoch_info.slotIndex.k # "int"
    \/ epoch_info.slotsInEpoch.k # "int"
    \/ epoch_info.slotsInEpoch.n = 0

\* Mutant of _calculate_epoch_progress: the progress is taken at the time of
\* the call, so that a later call is one slot further.
_calculate_epoch_progress_AtCallTime(epoch_info, performance_samples) ==
    LET slot_index == epoch_info.slotIndex.n + (IF twin.run = 2 THEN 1 ELSE 0)
        slots_in_epoch == epoch_info.slotsInEpoch.n
        percent_complete == Frac(slot_index * 100, slots_in_epoch)
        avg == AverageSlotTime(performance_samples)
    IN  [percent |-> percent_complete,
         avg_slot_time_seconds |-> avg,
         time_left |-> TimeLeft(slots_in_epoch - slot_index, avg, percent_complete)]

\* _calculate_epoch_progress after its fetch returned performance_samples
_calculate_epoch_progress(epoch_info, performance_samples) ==
    LET slot_index == epoch_info.slotIndex.n
        slots_in_epoch == epoch_info.slotsInEpoch.n
        percent_complete == Frac(slot_index * 100, slots_in_epoch)
        avg == AverageSlotTime(performance_samples)
    IN  [percent |-> percent_complete,
         avg_slot_time_seconds |-> avg,
         time_left |-> TimeLeft(slots_in_epoch - slot_index, avg, percent_complete)]

(***************************************************************************)
(* Aggregator: the pure steps of process_validator_data.                   *)
(***************************************************************************)
Absent == [k |-> "absent"]

\* dict.get(key, default) on a value that is an int or missing
GetInt(x, default) == IF x.k = "int" THEN x.n ELSE default

\* a JSON object as the sequence of its [key, val] members
RECURSIVE Lookup(_, _, _)
Lookup(members, key, default) ==
    IF members = <<>> THEN default
    ELSE IF Head(members).key = key THEN Head(members).val
    ELSE Lookup(Tail(members), key, default)

\* fetch_data.py:427-440: cumulative and earned credits of the current epoch
RECURSIVE EpochCreditsEntry(_, _)
EpochCreditsEntry(epochCredits, epoch) ==
    IF epochCredits = <<>> THEN [cumulative |-> 0, earned |-> 0]
    ELSE IF Len(Head(epochCredits)) = 3 /\ epoch.k = "int" /\ Head(epochCredits)[1] = epoch.n
    THEN [cumulative |-> Head(epochCredits)[2],
          earned |-> Head(epochCredits)[2] - Head(epochCredits)[3]]
    ELSE EpochCreditsEntry(Tail(epochCredits), epoch)

\* fetch_data.py:416-441
ProcessedValidators(vote_accounts_data, epoch) ==
    LET all_validators == vote_accounts_data.current \o vote_accounts_data.delinquent
    IN  [i \in 1..Len(all_validators) |->
            LET c == EpochCreditsEntry(all_validators[i].epochCredits, epoch)
            IN  [nodePubkey |-> all_validators[i].nodePubkey,
                 votePubkey |-> all_validators[i].votePubkey,
                 activatedStake |-> all_validators[i].activatedStake,
                 epochCredits |-> all_validators[i].epochCredits,
                 currentEpochCreditsCumulative |-> c.cumulative,
                 currentEpochCreditsEarned |-> c.earned,
                 rank |-> Absent]]

\* Mutant of InsertByCredits: an entry goes in front of the entries with an
\* equal key.
RECURSIVE InsertByCredits_BeforeEqual(_, _)
InsertByCredits_BeforeEqual(sorted, v) ==
    IF sorted = <<>> THEN <<v>>
    ELSE IF Head(sorted).currentEpochCreditsEarned > v.currentEpochCreditsEarned
    THEN <<Head(sorted)>> \o InsertByCredits_BeforeEqual(Tail(sorted), v)
    ELSE <<v>> \o sorted

\* sorted(..., reverse=True) is stable: an entry goes behind every entry whose
\* key is greater or equal
RECURSIVE InsertByCredits(_, _)
InsertByCredits(sorted, v) ==
    IF sorted = <<>> THEN <<v>>
    ELSE IF Head(sorted).currentEpochCreditsEarned >= v.currentEpochCreditsEarned
    THEN <<Head(sorted)>> \o InsertByCredits(Tail(sorted), v)
    ELSE <<v>> \o sorted

RECURSIVE SortByCreditsDesc(_, _)
SortByCreditsDesc(done, rest) ==
    IF rest = <<>> THEN done
    ELSE SortByCreditsDesc(InsertByCredits(done, Head(rest)), Tail(rest))

\* fetch_data.py:444-455
RankedValidators(processed_validators) ==
    LET Positive(v) == v.currentEpochCreditsEarned > 0
        ordered == SortByCreditsDesc(<<>>, SelectSeq(processed_validators, Positive))
    IN  [i \in 1..Len(ordered) |-> [ordered[i] EXCEPT !.rank = IntV(i)]]

RECURSIVE FirstWithNode(_, _)
FirstWithNode(validators, pubkey) ==
    IF validators = <<>> THEN <<>>
    ELSE IF Head(validators).nodePubkey = pubkey THEN <<Head(validators)>>
    ELSE FirstWithNode(Tail(validators), pubkey)

\* Mutant of Placeholder: the vote account is filled with the identity.
Placeholder_VoteIsIdentity(pubkey) ==
    [nodePubkey |-> pubkey, votePubkey |-> pubkey, activatedStake |-> 0,
     currentEpochCreditsEarned |-> 0, rank |-> StrV(NA)]

\* fetch_data.py:482
Placeholder(pubkey) ==
    [nodePubkey |-> pubkey, votePubkey |-> NA, activatedStake |-> 0,
     currentEpochCreditsEarned |-> 0, rank |-> StrV(NA)]

\* Mutant of OurValidatorData: the full set is searched before the ranked one.
OurValidatorData_FullSetFirst(ranked_validators, processed_validators, pubkey) ==
    LET in_ranked == FirstWithNode(ranked_validators, pubkey)
        in_all == FirstWithNode(processed_validators, pubkey)
    IN  IF in_all # <<>> /\ in_all[1].currentEpochCreditsEarned <= 0
        THEN [in_all[1] EXCEPT !.rank = StrV(NA)]
        ELSE IF in_ranked # <<>> THEN in_ranked[1]
        ELSE IF in_all # <<>> THEN [in_all[1] EXCEPT !.rank = StrV(NA)]
        ELSE Placeholder(pubkey)

\* fetch_data.py:457-482
OurValidatorData(ranked_validators, processed_validators, pubkey) ==
    LET in_ranked == FirstWithNode(ranked_validators, pubkey)
        in_all == FirstWithNode(processed_validators, pubkey)
    IN  IF in_ranked # <<>> THEN in_ranked[1]
        ELSE IF in_all # <<>> THEN [in_all[1] EXCEPT !.rank = StrV(NA)]
        ELSE Placeholder(pubkey)

\* gossip_address.split(":")[0]
RECURSIVE BeforeColon(_)
BeforeColon(str) ==
    IF str = <<>> \/ Head(str) = ":" THEN <<>>
    ELSE <<Head(str)>> \o BeforeColon(Tail(str))

\* fetch_data.py:492-508
RECURSIVE NodeInfo(_, _)
NodeInfo(nodes, identity) ==
    IF nodes = <<>> THEN [version |-> NA, ip |-> NA]
    ELSE IF Head(nodes).pubkey = identity
    THEN [version |-> Head(nodes).version,
          ip |-> IF Head(nodes).gossip # <<>> THEN BeforeColon(Head(nodes).gossip) ELSE NA]
    ELSE NodeInfo(Tail(nodes), identity)

NamePrefixLen == 12

\* identity[:12] + "..."
ShortenedPubkey(identity) ==
    SubSeq(identity, 1, IF Len(identity) < NamePrefixLen THEN Len(identity) ELSE NamePrefixLen)
        \o Ellipsis

\* fetch_data.py:527-534: the loop over a non-empty validator_infos_list
RECURSIVE NameFromInfos(_, _)
NameFromInfos(infos, identity) ==
    IF infos = <<>> THEN ShortenedPubkey(identity)
    ELSE IF Head(infos).identityPubkey = identity
    THEN LET validator_name == IF Head(infos).name.k = "str" THEN Head(infos).name.s
                               ELSE IF Head(infos).name.k = "absent" THEN UnknownName
                               ELSE <<>>
         IN  IF validator_name = NullName \/ validator_name = <<>>
             THEN ShortenedPubkey(identity)
             ELSE validator_name
    ELSE NameFromInfos(Tail(infos), identity)

\* fetch_data.py:525-536
ValidatorName(validator_infos_list, identity) ==
    IF validator_infos_list.items # <<>>
    THEN NameFromInfos(validator_infos_list.items, identity)
    ELSE ShortenedPubkey(identity)

\* Mutant of CreditsEarnedRank1: the last ranked entry is taken for the top one.
CreditsEarnedRank1_Last(ranked_validators) ==
    IF ranked_validators # <<>>
       /\ ranked_validators[Len(ranked_validators)].currentEpochCreditsEarned > 0
    THEN ranked_validators[Len(ranked_validators)].currentEpochCreditsEarned ELSE 0

\* fetch_data.py:540-542
CreditsEarnedRank1(ranked_validators) ==
    IF ranked_validators # <<>> /\ ranked_validators[1].currentEpochCreditsEarned > 0
    THEN ranked_validators[1].currentEpochCreditsEarned ELSE 0

\* fetch_data.py:544-550
MissedCredits(epoch_credits_earned, credits_earned_rank_1, rank) ==
    IF IsNumber(epoch_credits_earned) /\ credits_earned_rank_1 > 0
    THEN IntV(credits_earned_rank_1 - epoch_credits_earned.n)
    ELSE IF credits_earned_rank_1 = 0 /\ IsNumber(epoch_credits_earned)
            /\ epoch_credits_earned.n >= 0
    THEN IntV(0)
    ELSE StrV(NA)

(***************************************************************************)
(* What the cluster can answer: the values the successful fetches of a run *)
(* are drawn from.                                                         *)
(***************************************************************************)
TargetId == <<"T", "a", "r", "g", "e", "t", "I", "d", "e", "n", "t", "i", "t", "y">>
OtherId == <<"O", "t", "h", "e", "r">>
TargetVote == <<"V", "o", "t", "e", "T">>
OtherVote == <<"V", "o", "t", "e", "O">>

VoteAccount(node, vote, stake, epochCredits) ==
    [nodePubkey |-> node, votePubkey |-> vote, activatedStake |-> stake,
     epochCredits |-> epochCredits]

\* epochCredits histories; the epoch of the run is 7
Earned100 == << <<6, 40, 10>>, <<7, 150, 50>> >>
Earned50 == << <<7, 100, 50>> >>
EarnedNone == << <<6, 40, 10>> >>
EarnedMinus5 == << <<7, 45, 50>> >>

VoteAccounts(current, delinquent) ==
    [k |-> "dict", current |-> current, delinquent |-> delinquent]

VoteAccountsResults ==
    { VoteAccounts(<<VoteAccount(OtherId, OtherVote, 9, Earned100),
                     VoteAccount(TargetId, TargetVote, 4, Earned50)>>, <<>>),
      VoteAccounts(<<VoteAccount(TargetId, TargetVote, 4, Earned100)>>,
                   <<VoteAccount(OtherId, OtherVote, 9, EarnedNone)>>),
      VoteAccounts(<<VoteAccount(OtherId, OtherVote, 9, Earned100)>>,
                   <<VoteAccount(TargetId, TargetVote, 4, EarnedNone)>>),
      VoteAccounts(<<VoteAccount(TargetId, TargetVote, 4, EarnedNone)>>, <<>>),
      VoteAccounts(<<VoteAccount(TargetId, TargetVote, 4, EarnedMinus5)>>, <<>>),
      VoteAccounts(<<VoteAccount(OtherId, OtherVote, 9, Earned100)>>, <<>>),
      VoteAccounts(<<>>, <<>>),
      Null }

InfoEntry(id, name) == [identityPubkey |-> id, name |-> name]

ValidatorInfoOutputs ==
    { List(<<InfoEntry(OtherId, StrV(<<"O", "t", "h">>)),
             InfoEntry(TargetId, StrV(<<"M", "y", "V", "a", "l">>))>>),
      List(<<InfoEntry(TargetId, StrV(NullName))>>),
      List(<<InfoEntry(TargetId, Absent)>>),
      List(<<InfoEntry(OtherId, StrV(<<"O", "t", "h">>))>>),
      Malformed }

EpochInfo(epoch, slotIndex, slotsInEpoch, absoluteSlot) ==
    [k |-> "dict", epoch |-> IntV(epoch), slotIndex |-> IntV(slotIndex),
     slotsInEpoch |-> IntV(slotsInEpoch), absoluteSlot |-> IntV(absoluteSlot)]

EpochInfoResults ==
    { EpochInfo(7, 50, 100, 750), EpochInfo(7, 0, 100, 700),
      EpochInfo(7, 0, 0, 700), Null }

StakeAccount(active, delegated, deactivating) ==
    [activeStake |-> active, delegatedStake |-> delegated,
     deactivatingStake |-> deactivating]

StakesOutputs ==
    { List(<<StakeAccount(IntV(5), IntV(8), IntV(0)),
             StakeAccount(IntV(10), IntV(7), IntV(2))>>),
      List(<<>>), Malformed }

Node(pubkey, version, gossip) == [pubkey |-> pubkey, version |-> version, gossip |-> gossip]

ClusterNodesResults ==
    { List(<<Node(OtherId, <<"1", ".", "9">>, <<"9", ":", "1">>),
             Node(TargetId, <<"2", ".", "0">>, <<"1", "0", ":", "8">>)>>),
      List(<<Node(OtherId, <<"1", ".", "9">>, <<"9", ":", "1">>)>>),
      Null }

\* a mapping with the lamports, a mapping without them, the bare number, null
BalanceResults ==
    { [k |-> "dict", value |-> IntV(3)], [k |-> "dict", value |-> Absent], IntV(3), Null }

Sample(numSlots, secs) == [numSlots |-> numSlots, samplePeriodSecs |-> secs]

PerformanceSamplesResults ==
    { List(<<Sample(10, IntV(5)), Sample(0, IntV(3))>>), Null }

Member(key, val) == [key |-> key, val |-> val]
Dict(members) == [k |-> "dict", members |-> members]

LeaderScheduleResults ==
    { Dict(<<Member(OtherId, <<1, 2>>), Member(TargetId, <<0, 10, 60>>)>>),
      Dict(<<Member(TargetId, <<60>>)>>),
      Dict(<<Member(OtherId, <<1, 2>>)>>),
      Null }

BlockProductionResults ==
    { Dict(<<Member(TargetId, <<20, 18>>)>>),
      Dict(<<Member(TargetId, <<0, 0>>)>>),
      Dict(<<>>),
      Null }

(***************************************************************************)
(* The answers a transport call gets in a run: success at the first try,   *)
(* success at the very last try, or failure of every try.                  *)
(***************************************************************************)
RpcFailureOrder ==
    <<[exc |-> "Timeout", error |-> FALSE, result |-> Null],
      [exc |-> "none", error |-> TRUE, result |-> Null],
      [exc |-> "HTTPError", error |-> FALSE, result |-> Null],
      [exc |-> "JSONDecodeError", error |-> FALSE, result |-> Null],
      [exc |-> "RequestException", error |-> FALSE, result |-> Null]>>

RpcFailures(count) == [i \in 1..count |-> RpcFailureOrder[((i - 1) % 5) + 1]]

RpcAnswerSeqs(c, results) ==
    LET tries == max_attempts(c) * c.urls
    IN  {RpcFailures(tries)}
          \cup {<<RpcOkAnswer(v)>> : v \in results}
          \cup {RpcFailures(tries - 1) \o <<RpcOkAnswer(v)>> : v \in results}

CliFailureOrder ==
    <<[exc |-> "CalledProcessError", stdout |-> Null],
      [exc |-> "TimeoutExpired", stdout |-> Null],
      [exc |-> "Exception", stdout |-> Null]>>

CliFailures(count) == [i \in 1..count |-> CliFailureOrder[((i - 1) % 3) + 1]]

CliAnswerSeqs(c, outputs) ==
    {CliFailures(c.urls)}
      \cup {<<CliOkAnswer(v)>> : v \in outputs}
      \cup {CliFailures(c.urls - 1) \o <<CliOkAnswer(v)>> : v \in outputs}

RpcCalls(c, method, results) ==
    {_make_rpc_request(c, method, answers) : answers \in RpcAnswerSeqs(c, results)}

CliCalls(c, command, outputs) ==
    {_execute_solana_cli_command(c, command, answers) : answers \in CliAnswerSeqs(c, outputs)}

\* the finished transport calls each fetch of a run can get, per configuration
FetchCalls ==
    [c \in GoodConfigs \cup BadConfigs |->
        [getVoteAccounts |-> RpcCalls(c, "getVoteAccounts", VoteAccountsResults),
         validator_info |-> CliCalls(c, "validator-info", ValidatorInfoOutputs),
         getEpochInfo |-> RpcCalls(c, "getEpochInfo", EpochInfoResults),
         stakes |-> CliCalls(c, "stakes", StakesOutputs),
         getClusterNodes |-> RpcCalls(c, "getClusterNodes", ClusterNodesResults),
         getBalance |-> RpcCalls(c, "getBalance", BalanceResults),
         getRecentPerformanceSamples |-> RpcCalls(c, "getRecentPerformanceSamples", PerformanceSamplesResults),
         getLeaderSchedule |-> RpcCalls(c, "getLeaderSchedule", LeaderScheduleResults),
         getBlockProduction |-> RpcCalls(c, "getBlockProduction", BlockProductionResults)]]

CallCount(t) ==
    [calls |-> EventCount(t.log, "post") + EventCount(t.log, "run"),
     sleeps |-> EventCount(t.log, "sleep")]

(***************************************************************************)
(* Transport specification: one call of _make_rpc_request or of            *)
(* _execute_solana_cli_command, one endpoint at a time.                    *)
(***************************************************************************)
RpcMethods ==
    {"getVoteAccounts", "getEpochInfo", "getClusterNodes", "getLeaderSchedule",
     "getBlockProduction", "getRecentPerformanceSamples", "getBalance"}

CliCommands == {"validator-info", "stakes"}

TransportValues == {[k |-> "json"], Null}

InitTransport ==
    /\ cfg \in GoodConfigs
    /\ pc = "transport"
    /\ loc = NoLocals
    /\ issued = <<>>
    /\ failed = {}
    /\ last = NoCall
    /\ rec = NoReport
    /\ posts = 0
    /\ sent = "none"
    /\ exitCode = -1
    /\ tr \in {RpcBegin(m, cfg.urls) : m \in RpcMethods}
                \cup {CliBegin(c, cfg.urls) : c \in CliCommands}
    /\ calc = Idle
    /\ twin = NoReplay

UnchangedRun ==
    UNCHANGED <<cfg, pc, loc, issued, failed, last, rec, posts, sent, exitCode, calc, twin>>

RpcPost ==
    /\ tr.kind = "rpc"
    /\ tr.phase = "post"
    /\ \E a \in RpcFailureAnswers \cup {RpcOkAnswer(v) : v \in TransportValues} :
          tr' = RpcPostStep(tr, a, cfg.urls)
    /\ UnchangedRun

RpcPassEnd ==
    /\ tr.kind = "rpc"
    /\ tr.phase = "pass_end"
    /\ tr' = RpcPassEndStep(tr, max_attempts(cfg), cfg.urls)
    /\ UnchangedRun

CliRunOne ==
    /\ tr.kind = "cli"
    /\ tr.phase = "run"
    /\ \E a \in CliFailureAnswers \cup {CliOkAnswer(v) : v \in TransportValues} :
          tr' = CliRunStep(tr, a, cfg.urls)
    /\ UnchangedRun

NextTransport == RpcPost \/ RpcPassEnd \/ CliRunOne

SpecTransport == InitTransport /\ [][NextTransport]_vars

(***************************************************************************)
(* A run: main -> report_validator_status -> process_validator_data ->     *)
(* format_and_send_status -> send_discord_message.  A fetch is one action: *)
(* the transport call run to its end and the fetcher applied to it.        *)
(***************************************************************************)
\* a run is started with the largest configuration of the bounds, or with one
\* whose cluster keys are missing or empty
Init ==
    /\ cfg \in {Config(TRUE, MaxEndpoints, TRUE, MaxRetries)} \cup BadConfigs
    /\ pc = "resolve_config"
    /\ loc = NoLocals
    /\ issued = <<>>
    /\ failed = {}
    /\ last = NoCall
    /\ rec = NoReport
    /\ posts = 0
    /\ sent = "none"
    /\ exitCode = -1
    /\ tr = Idle
    /\ calc = Idle
    /\ twin = NoReplay

InitialLocals ==
    [k |-> "locals",
     validator_identity_pubkey |-> TargetId,
     vote_accounts_data |-> Null, validator_infos_list |-> Null,
     epoch_info_data |-> Null, stake_metrics |-> Null, cluster_nodes_data |-> Null,
     ranked_validators |-> <<>>, our_validator_data |-> Null,
     rank |-> Null, identity |-> <<>>, vote_account |-> <<>>,
     epoch_credits_earned |-> Null,
     validator_client_version |-> <<>>, validator_ip_address |-> <<>>,
     identity_balance_lamports |-> Null, vote_account_balance_lamports |-> Null,
     identity_balance_sol |-> Null, vote_account_balance_sol |-> Null,
     active_stake_sol |-> Null, validator_name |-> <<>>, missed_credits |-> Null,
     current_epoch |-> Null, epoch_percent_complete |-> Null,
     time_left_in_epoch |-> Null, avg_slot_time_seconds |-> Null,
     leader_slots_total |-> 0, leader_slots_completed_count |-> 0,
     leader_slots_upcoming_count |-> 0, leader_slots_skipped |-> 0,
     leader_skip_rate |-> Frac(0, 1),
     validator_slots_in_epoch |-> <<>>,
     epoch_start_absolute_slot |-> Null, current_absolute_slot |-> Null,
     block_production_params |-> Null]

\* fetch_data.py:630-656
StatusRecord(l) ==
    [k |-> "record",
     validator_name |-> l.validator_name,
     active_stake_sol |-> l.active_stake_sol,
     current_epoch |-> l.current_epoch,
     epoch_percent_complete |-> l.epoch_percent_complete,
     time_left_in_epoch |-> l.time_left_in_epoch,
     rank |-> l.rank,
     epoch_credits |-> l.epoch_credits_earned,
     missed_credits |-> l.missed_credits,
     identity_pubkey |-> l.identity,
     vote_account_pubkey |-> l.vote_account,
     identity_balance_sol |-> l.identity_balance_sol,
     vote_account_balance_sol |-> l.vote_account_balance_sol,
     validator_version |-> l.validator_client_version,
     validator_ip |-> l.validator_ip_address,
     total_active_stake_sol |-> l.stake_metrics.total_active_stake_sol,
     total_delegated_stake_sol |-> l.stake_metrics.total_delegated_stake_sol,
     stake_activating_sol |-> l.stake_metrics.stake_activating_sol,
     stake_deactivating_sol |-> l.stake_metrics.stake_deactivating_sol,
     net_stake_change_sol |-> l.stake_metrics.net_stake_change_sol,
     leader_slots_total |-> l.leader_slots_total,
     leader_slots_completed |-> l.leader_slots_completed_count,
     leader_slots_upcoming |-> l.leader_slots_upcoming_count,
     leader_slots_skipped |-> l.leader_slots_skipped,
     leader_skip_rate |-> l.leader_skip_rate]

\* fetch_data.py:369-375: return None
ReturnNone ==
    /\ pc' = "report"
    /\ rec' = NoReport
    /\ UNCHANGED loc

\* an exception that leaves process_validator_data
Escaped(exc) == [k |-> "raised", exc |-> exc]

\* Mutant of ExceptResult: only RuntimeError is caught.
ExceptResult_OnlyRuntimeError(exc) ==
    IF exc = "RuntimeError" THEN NoReport ELSE Escaped(exc)

\* fetch_data.py:658-663: "except RuntimeError" and "except Exception" both
\* return None
ExceptResult(exc) ==
    IF exc = "RuntimeError" THEN NoReport ELSE NoReport

\* an exception raised inside the try of fetch_data.py:380-656
Abort(exc) ==
    /\ pc' = "report"
    /\ rec' = ExceptResult(exc)
    /\ UNCHANGED loc

\* fetch_data.py:628-656: return the status record
Finish(locals) ==
    /\ pc' = "report"
    /\ rec' = StatusRecord(locals)
    /\ loc' = locals

Goto(next, locals) ==
    /\ pc' = next
    /\ loc' = locals
    /\ UNCHANGED rec

\* bookkeeping of a transport call: bad says that what the transport returned
\* does not have the documented shape
\* fetches of a call that get another response than the standard one
MaxOdd == 2

\* the result each fetch gets from a healthy endpoint about a validator that
\* votes, is named, has stake and leader slots
StandardResults ==
    { VoteAccounts(<<VoteAccount(OtherId, OtherVote, 9, Earned100),
                     VoteAccount(TargetId, TargetVote, 4, Earned50)>>, <<>>),
      List(<<InfoEntry(OtherId, StrV(<<"O", "t", "h">>)),
             InfoEntry(TargetId, StrV(<<"M", "y", "V", "a", "l">>))>>),
      EpochInfo(7, 50, 100, 750),
      List(<<StakeAccount(IntV(5), IntV(8), IntV(0)),
             StakeAccount(IntV(10), IntV(7), IntV(2))>>),
      List(<<Node(OtherId, <<"1", ".", "9">>, <<"9", ":", "1">>),
             Node(TargetId, <<"2", ".", "0">>, <<"1", "0", ":", "8">>)>>),
      [k |-> "dict", value |-> IntV(3)],
      List(<<Sample(10, IntV(5)), Sample(0, IntV(3))>>),
      Dict(<<Member(OtherId, <<1, 2>>), Member(TargetId, <<0, 10, 60>>)>>),
      Dict(<<Member(TargetId, <<20, 18>>)>>) }

\* a transport call that got the standard result at its first try
Standard(t) ==
    /\ t.phase = "returned"
    /\ CallCount(t).calls = 1
    /\ t.result \in StandardResults

\* the responses a fetch gets.  In the repeated-run specification at most
\* MaxOdd fetches of the first call get another response than the standard
\* one, and a fetch of the second call gets what the same fetch got in the
\* first call
Responses(calls) ==
    IF twin.run = 1
    THEN (IF twin.odd < MaxOdd THEN calls ELSE {t \in calls : Standard(t)})
    ELSE IF twin.run = 2 /\ twin.tape # <<>> /\ Head(twin.tape).call \in calls
    THEN {Head(twin.tape).call}
    ELSE calls

\* the first call's responses are kept in order; the second call consumes
\* them, and has diverged when it makes a fetch the first call did not make
Heard(name, t) ==
    IF twin.run = 0 THEN twin
    ELSE IF twin.run = 1
    THEN [twin EXCEPT !.tape = Append(@, [fetch |-> name, call |-> t]),
                      !.odd = IF Standard(t) THEN @ ELSE @ + 1]
    ELSE IF twin.tape # <<>> /\ Head(twin.tape) = [fetch |-> name, call |-> t]
    THEN [twin EXCEPT !.tape = Tail(@)]
    ELSE [twin EXCEPT !.diverged = TRUE]

Track(t, name, bad) ==
    /\ issued' = Append(issued, name)
    /\ failed' = failed \cup (IF t.phase = "raised" THEN {<<name, "exhausted">>}
                               ELSE IF bad THEN {<<name, "shape">>} ELSE {})
    /\ last' = CallCount(t)
    /\ twin' = Heard(name, t)

NoTrack == UNCHANGED <<issued, failed, last, twin>>

Outside == UNCHANGED <<cfg, posts, sent, exitCode, tr, calc>>

\* Mutant of ConfigUnusable: an empty endpoint list is accepted.
ConfigUnusable_EmptyListAccepted(c) == ~c.urls_key \/ ~c.identity_key

\* fetch_data.py:366-375: KeyError from get_rpc_urls or get_validator_identity,
\* or "if not rpc_urls"
ConfigUnusable(c) == ~c.urls_key \/ ~c.identity_key \/ c.urls = 0

\* fetch_data.py:366-378
ResolveConfig ==
    /\ pc = "resolve_config"
    /\ IF ConfigUnusable(cfg)
       THEN ReturnNone
       ELSE Goto("fetch_vote_accounts", InitialLocals)
    /\ NoTrack
    /\ Outside

\* fetch_data.py:383
FetchVoteAccounts ==
    /\ pc = "fetch_vote_accounts"
    /\ \E t \in Responses(FetchCalls[cfg].getVoteAccounts) :
          LET r == get_vote_accounts_rpc(t)
          IN  /\ Track(t, "getVoteAccounts", ~IsDict(t.result))
              /\ IF r.exc # "none" THEN Abort(r.exc)
                 ELSE Goto("fetch_validator_info", [loc EXCEPT !.vote_accounts_data = r.val])
    /\ Outside

\* fetch_data.py:389
FetchValidatorInfo ==
    /\ pc = "fetch_validator_info"
    /\ \E t \in Responses(FetchCalls[cfg].validator_info) :
          LET r == get_validator_info_cli(t)
          IN  /\ Track(t, "validator-info", ~IsList(t.result))
              /\ IF r.exc # "none" THEN Abort(r.exc)
                 ELSE Goto("fetch_epoch_info", [loc EXCEPT !.validator_infos_list = r.val])
    /\ Outside

\* fetch_data.py:394
FetchEpochInfo ==
    /\ pc = "fetch_epoch_info"
    /\ \E t \in Responses(FetchCalls[cfg].getEpochInfo) :
          LET r == get_epoch_info_rpc(t)
          IN  /\ Track(t, "getEpochInfo", ~IsDict(t.result))
              /\ IF r.exc # "none" THEN Abort(r.exc)
                 ELSE Goto("fetch_stake", [loc EXCEPT !.epoch_info_data = r.val])
    /\ Outside

\* fetch_data.py:399-407
FetchStake ==
    /\ pc = "fetch_stake"
    /\ \E t \in Responses(FetchCalls[cfg].stakes) :
          LET r == _get_validator_stake_info_cli(t)
          IN  /\ Track(t, "stakes", ~IsList(t.result))
              /\ IF r.exc # "none" THEN Abort(r.exc)
                 ELSE Goto("fetch_cluster_nodes",
                           [loc EXCEPT !.stake_metrics =
                                          _calculate_stake_metrics_from_data(r.val)])
    /\ Outside

\* fetch_data.py:410
FetchClusterNodes ==
    /\ pc = "fetch_cluster_nodes"
    /\ \E t \in Responses(FetchCalls[cfg].getClusterNodes) :
          LET r == get_cluster_nodes_rpc(t)
          IN  /\ Track(t, "getClusterNodes", ~IsList(t.result))
              /\ IF r.exc # "none" THEN Abort(r.exc)
                 ELSE Goto("process_validators", [loc EXCEPT !.cluster_nodes_data = r.val])
    /\ Outside

\* fetch_data.py:416-508: credits, ranks, the target validator, its node info.
\* A null vote-accounts or epoch-info result has no .get: AttributeError.
ProcessValidators ==
    /\ pc = "process_validators"
    /\ IF IsNull(loc.vote_accounts_data) \/ IsNull(loc.epoch_info_data)
       THEN Abort("AttributeError")
       ELSE LET processed_validators ==
                    ProcessedValidators(loc.vote_accounts_data, loc.epoch_info_data.epoch)
                ranked_validators == RankedValidators(processed_validators)
                our_validator_data ==
                    OurValidatorData(ranked_validators, processed_validators,
                                     loc.validator_identity_pubkey)
                rank == IF our_validator_data.rank.k = "absent"
                        THEN StrV(NA) ELSE our_validator_data.rank
                identity == our_validator_data.nodePubkey
                node == NodeInfo(loc.cluster_nodes_data.items, identity)
            IN  Goto("fetch_identity_balance",
                     [loc EXCEPT !.ranked_validators = ranked_validators,
                                 !.our_validator_data = our_validator_data,
                                 !.rank = rank,
                                 !.identity = identity,
                                 !.vote_account = our_validator_data.votePubkey,
                                 !.epoch_credits_earned =
                                     IntV(our_validator_data.currentEpochCreditsEarned),
                                 !.validator_client_version = node.version,
                                 !.validator_ip_address = node.ip])
    /\ NoTrack
    /\ Outside

\* x / LAMPORTS_PER_SOL if x is not None else "N/A"
BalanceSol(lamports) ==
    IF IsNull(lamports) THEN StrV(NA) ELSE FloatV(Sol(lamports.n))

\* fetch_data.py:512: identity balance (get_balance_rpc, lines 190-210)
FetchIdentityBalance ==
    /\ pc = "fetch_identity_balance"
    /\ IF loc.identity = NA \/ loc.identity = <<>>
       THEN /\ Goto("fetch_vote_balance", [loc EXCEPT !.identity_balance_lamports = Null])
            /\ NoTrack
       ELSE \E t \in Responses(FetchCalls[cfg].getBalance) :
              LET r == get_balance_rpc(t)
              IN  /\ Track(t, "getBalance:identity", r.exc # "none" \/ IsNull(r.val))
                  /\ IF r.exc # "none" THEN Abort(r.exc)
                     ELSE Goto("fetch_vote_balance",
                               [loc EXCEPT !.identity_balance_lamports = r.val])
    /\ Outside

\* fetch_data.py:513: vote account balance
FetchVoteBalance ==
    /\ pc = "fetch_vote_balance"
    /\ IF loc.vote_account = NA \/ loc.vote_account = <<>>
       THEN /\ Goto("derive", [loc EXCEPT !.vote_account_balance_lamports = Null])
            /\ NoTrack
       ELSE \E t \in Responses(FetchCalls[cfg].getBalance) :
              LET r == get_balance_rpc(t)
              IN  /\ Track(t, "getBalance:vote", r.exc # "none" \/ IsNull(r.val))
                  /\ IF r.exc # "none" THEN Abort(r.exc)
                     ELSE Goto("derive", [loc EXCEPT !.vote_account_balance_lamports = r.val])
    /\ Outside

\* fetch_data.py:515-554: balances in SOL, active stake, display name,
\* missed credits, current epoch
Derive ==
    /\ pc = "derive"
    /\ Goto("epoch_progress",
            [loc EXCEPT
               !.identity_balance_sol = BalanceSol(loc.identity_balance_lamports),
               !.vote_account_balance_sol = BalanceSol(loc.vote_account_balance_lamports),
               !.active_stake_sol = Sol(loc.our_validator_data.activatedStake),
               !.validator_name = ValidatorName(loc.validator_infos_list, loc.identity),
               !.missed_credits =
                   MissedCredits(loc.epoch_credits_earned,
                                 CreditsEarnedRank1(loc.ranked_validators), loc.rank),
               !.current_epoch = loc.epoch_info_data.epoch])
    /\ NoTrack
    /\ Outside

\* fetch_data.py:555: _calculate_epoch_progress with its fetch of the
\* performance samples (line 308); nothing there catches what the fetch raises
EpochProgress ==
    /\ pc = "epoch_progress"
    /\ IF EpochFieldsInvalid(loc.epoch_info_data)
       THEN /\ Goto("leader_schedule",
                    [loc EXCEPT !.epoch_percent_complete = Frac(0, 1),
                                !.time_left_in_epoch = [k |-> "text", text |-> "Unknown"]])
            /\ NoTrack
       ELSE \E t \in Responses(FetchCalls[cfg].getRecentPerformanceSamples) :
              LET r == get_recent_performance_samples_rpc(t)
              IN  /\ Track(t, "getRecentPerformanceSamples", ~IsList(t.result))
                  /\ IF r.exc # "none" THEN Abort(r.exc)
                     ELSE LET p == _calculate_epoch_progress(loc.epoch_info_data, r.val)
                          IN  Goto("leader_schedule",
                                   [loc EXCEPT !.epoch_percent_complete = p.percent,
                                               !.time_left_in_epoch = p.time_left,
                                               !.avg_slot_time_seconds = p.avg_slot_time_seconds])
    /\ Outside

CountAtMost(slots, limit) == Cardinality({i \in 1..Len(slots) : slots[i] <= limit})

\* Mutant of BlockProductionWanted: the slot range is not looked at.
BlockProductionWanted_AnyRange(epoch_info, completed) == completed > 0

\* fetch_data.py:163-169: params of the getBlockProduction request
BlockProductionParams(identity_pubkey, first_slot, last_slot) ==
    [identity |-> identity_pubkey, firstSlot |-> first_slot, lastSlot |-> last_slot]

\* fetch_data.py:585-589
BlockProductionWanted(epoch_info, completed) ==
    LET current_slot_in_epoch == GetInt(epoch_info.slotIndex, 0)
        current_absolute_slot == GetInt(epoch_info.absoluteSlot, 0)
        epoch_start_absolute_slot == current_absolute_slot - current_slot_in_epoch
    IN  completed > 0 /\ epoch_start_absolute_slot < current_absolute_slot

\* fetch_data.py:558-587, 618-656: leader schedule and the slot counts; the
\* record is returned here unless block production is to be fetched
LeaderSchedule ==
    /\ pc = "leader_schedule"
    /\ IF loc.identity = NA
       THEN Finish(loc) /\ NoTrack
       ELSE \E t \in Responses(FetchCalls[cfg].getLeaderSchedule) :
              LET r == get_leader_schedule_rpc(t)
              IN  /\ Track(t, "getLeaderSchedule", ~IsDict(t.result))
                  /\ IF r.exc = "RuntimeError" THEN Finish(loc)
                     ELSE IF r.exc # "none" THEN Abort(r.exc)
                     ELSE LET validator_slots_in_epoch ==
                                  Lookup(r.val.members, loc.identity, <<>>)
                              total == Len(validator_slots_in_epoch)
                              completed ==
                                  CountAtMost(validator_slots_in_epoch,
                                              GetInt(loc.epoch_info_data.slotIndex, 0))
                          IN  IF total > 0
                              THEN LET counted ==
                                           [loc EXCEPT !.validator_slots_in_epoch =
                                                           validator_slots_in_epoch,
                                                       !.leader_slots_total = total,
                                                       !.leader_slots_completed_count = completed,
                                                       !.leader_slots_upcoming_count = total - completed,
                                                       !.epoch_start_absolute_slot =
                                                           GetInt(loc.epoch_info_data.absoluteSlot, 0)
                                                             - GetInt(loc.epoch_info_data.slotIndex, 0),
                                                       !.current_absolute_slot =
                                                           GetInt(loc.epoch_info_data.absoluteSlot, 0)]
                                   IN  IF BlockProductionWanted(loc.epoch_info_data, completed)
                                       THEN Goto("block_production", counted)
                                       ELSE Finish(counted)
                              ELSE Finish([loc EXCEPT !.leader_slots_total = total])
    /\ Outside

\* Mutant of SkipMetrics: the rate is computed without looking at the number
\* of assigned slots.
SkipMetrics_Unguarded(block_production_info, identity) ==
    LET validator_bp_stats == Lookup(block_production_info.members, identity, <<>>)
    IN  IF validator_bp_stats # <<>> /\ Len(validator_bp_stats) = 2
        THEN [skipped |-> validator_bp_stats[1] - validator_bp_stats[2],
              rate |-> Frac((validator_bp_stats[1] - validator_bp_stats[2]) * 100,
                            validator_bp_stats[1])]
        ELSE [skipped |-> 0, rate |-> Frac(0, 1)]

\* fetch_data.py:599-615: skipped slots and skip rate from the answer
SkipMetrics(block_production_info, identity) ==
    LET validator_bp_stats == Lookup(block_production_info.members, identity, <<>>)
    IN  IF validator_bp_stats # <<>> /\ Len(validator_bp_stats) = 2
           /\ validator_bp_stats[1] > 0
        THEN [skipped |-> validator_bp_stats[1] - validator_bp_stats[2],
              rate |-> Frac((validator_bp_stats[1] - validator_bp_stats[2]) * 100,
                            validator_bp_stats[1])]
        ELSE [skipped |-> 0, rate |-> Frac(0, 1)]

\* fetch_data.py:589-617, 628-656: block production of the epoch so far,
\* and the return of the record
BlockProduction ==
    /\ pc = "block_production"
    /\ \E t \in Responses(FetchCalls[cfg].getBlockProduction) :
          LET r == get_block_production_rpc(t)
              called == [loc EXCEPT !.block_production_params =
                                        BlockProductionParams(loc.identity,
                                                              loc.epoch_start_absolute_slot,
                                                              loc.current_absolute_slot)]
          IN  /\ Track(t, "getBlockProduction", ~IsDict(t.result))
              /\ IF r.exc = "RuntimeError" THEN Finish(called)
                 ELSE IF r.exc # "none" THEN Abort(r.exc)
                 ELSE LET m == SkipMetrics(r.val, loc.identity)
                      IN  Finish([called EXCEPT !.leader_slots_skipped = m.skipped,
                                                !.leader_skip_rate = m.rate])
    /\ Outside

\* discord.py:110-111, 134-135: the format specs ",.2f" and "," accept a
\* number and raise ValueError on the string 'N/A'
FormatRaises(r) ==
    \/ ~IsNumber(r.identity_balance_sol)
    \/ ~IsNumber(r.vote_account_balance_sol)
    \/ ~IsNumber(r.epoch_credits)
    \/ ~IsNumber(r.missed_credits)

\* discord.py:9-35 after discord.py:97-138: what format_and_send_status can
\* come to for a record, with the number of webhook POSTs made
SendOutcomes(r) ==
    IF FormatRaises(r) THEN {[sent |-> "ValueError", posts |-> 0]}
    ELSE { IF webhook_url = "missing" THEN [sent |-> "KeyError", posts |-> 0]
           ELSE IF webhook_url = "empty" THEN [sent |-> "Unconfigured", posts |-> 0]
           ELSE [sent |-> success, posts |-> 1] :
             webhook_url \in Webhooks, success \in {"True", "False"} }

\* what report_validator_status can come to without an exception
Completions == {"none", "True", "False", "Unconfigured"}

\* Mutant of ExitCode: a failed transmission is a failure of the process.
ExitCode_FailedSendIsFailure(outcome) == IF outcome \in {"none", "True"} THEN 0 ELSE 1

\* main.py:60-67: exit status 1 when an exception reaches main
ExitCode(outcome) == IF outcome \in Completions THEN 0 ELSE 1

\* fetch_data.py:683-716 as called by main.py:60-67
Report ==
    /\ pc = "report"
    /\ pc' = "done"
    /\ \E o \in (IF rec = NoReport THEN {[sent |-> "none", posts |-> 0]}
                 ELSE IF rec.k = "raised" THEN {[sent |-> rec.exc, posts |-> 0]}
                 ELSE SendOutcomes(rec)) :
          /\ sent' = o.sent
          /\ posts' = posts + o.posts
          /\ exitCode' = ExitCode(o.sent)
    /\ UNCHANGED <<cfg, loc, rec, tr, calc>>
    /\ NoTrack

Next ==
    \/ ResolveConfig
    \/ FetchVoteAccounts
    \/ FetchValidatorInfo
    \/ FetchEpochInfo
    \/ FetchStake
    \/ FetchClusterNodes
    \/ ProcessValidators
    \/ FetchIdentityBalance
    \/ FetchVoteBalance
    \/ Derive
    \/ EpochProgress
    \/ LeaderSchedule
    \/ BlockProduction
    \/ Report

Spec == Init /\ [][Next]_vars

\* a run in which every requests.post, subprocess.run and sleep returns: the
\* sequential program takes its next step
FairSpec == Spec /\ WF_vars(Next)

(***************************************************************************)
(* Repeated-run specification: process_validator_data is called, and then  *)
(* called again with every fetch getting the response it got in the first  *)
(* call.                                                                   *)
(***************************************************************************)
InitTwice ==
    /\ cfg = Config(TRUE, MaxEndpoints, TRUE, MaxRetries)
    /\ pc = "resolve_config"
    /\ loc = NoLocals
    /\ issued = <<>>
    /\ failed = {}
    /\ last = NoCall
    /\ rec = NoReport
    /\ posts = 0
    /\ sent = "none"
    /\ exitCode = -1
    /\ tr = Idle
    /\ calc = Idle
    /\ twin = [NoReplay EXCEPT !.run = 1]

\* the first call has returned; the second call starts with fresh locals
Rerun ==
    /\ pc = "report"
    /\ twin.run = 1
    /\ twin' = [twin EXCEPT !.run = 2, !.first = rec]
    /\ pc' = "resolve_config"
    /\ loc' = NoLocals
    /\ rec' = NoReport
    /\ issued' = <<>>
    /\ failed' = {}
    /\ last' = NoCall
    /\ UNCHANGED <<cfg, posts, sent, exitCode, tr, calc>>

NextTwice ==
    \/ Next
    \/ Rerun

SpecTwice == InitTwice /\ [][NextTwice]_vars

(***************************************************************************)
(* Calculation specification: one call of a calculation of the aggregator  *)
(* on an input drawn from a bounded set.                                   *)
(***************************************************************************)
MaxValidators == 5

\* credits earned in the epoch of the run by the validators of an input
CreditChoices == {-5, 0, 50, 100}

CalcEpoch == 7

Digits == <<"0", "1", "2", "3", "4", "5", "6", "7", "8", "9">>

\* node identity of the validator at index i (from 0) of an input
IdxId(i) == <<"i", "d", "x", Digits[i + 1]>>

\* getVoteAccounts result whose validators, in order, earned the given
\* credits; the first split of them are current, the others delinquent
\* (none, half or all of them in the inputs)
VoteAccountsOf(credits, split) ==
    LET entry(i) == VoteAccount(IdxId(i - 1), <<"v">> \o IdxId(i - 1), i,
                                << <<CalcEpoch - 1, 100, 60>>,
                                   <<CalcEpoch, 100 + credits[i], 100>> >>)
        all == [i \in 1..Len(credits) |-> entry(i)]
    IN  VoteAccounts(SubSeq(all, 1, split), SubSeq(all, split + 1, Len(all)))

RankInputs ==
    UNION { UNION { { [kind |-> "rank", credits |-> c, split |-> sp, done |-> FALSE]
                      : sp \in {0, n \div 2, n} } : c \in [1..n -> CreditChoices] }
            : n \in 0..MaxValidators }

MaxStakeAccounts == 2

\* a field of a stake account in the inputs: missing, or one of two amounts
StakeFieldChoices == {Absent, IntV(2), IntV(5)}

StakeInputs ==
    UNION { { [kind |-> "stake", accounts |-> a, done |-> FALSE]
              : a \in [1..n -> [activeStake : StakeFieldChoices,
                                delegatedStake : StakeFieldChoices,
                                deactivatingStake : StakeFieldChoices]] }
            : n \in 0..MaxStakeAccounts }

MaxSlots == 3

\* [assigned, produced] of the validator in a getBlockProduction result, or
\* a member of another length, or no member at all
SkipInputs ==
    { [kind |-> "skip", stats |-> st, done |-> FALSE]
      : st \in {<<a, b>> : a \in 0..MaxSlots, b \in 0..MaxSlots}
                 \cup {<<20, 18>>, <<>>, <<4>>, <<4, 3, 2>>} }

MaxEntries == 3

\* vote accounts in which the identity of the run may appear several times,
\* or not at all
ResolveInputs ==
    UNION { { [kind |-> "resolve", entries |-> e, done |-> FALSE]
              : e \in [1..n -> [id : {TargetId, OtherId}, credits : CreditChoices]] }
            : n \in 0..MaxEntries }

\* epochs of 1000 and of 432000 slots, at their start, middle and end, with no
\* samples (0.4 s per slot), 0.5 s, 1 s and 0 s per slot
TimeInputs ==
    { [kind |-> "time", slot_index |-> i, slots_in_epoch |-> n, samples |-> sm,
       done |-> FALSE]
      : n \in {1000, 432000}, i \in {0, 1, 500, 850, 998, 999, 1000},
        sm \in {List(<<>>), List(<<Sample(10, IntV(5))>>), List(<<Sample(1, IntV(1))>>),
                 List(<<Sample(5, IntV(0))>>)} }
      \cup
    { [kind |-> "time", slot_index |-> 432000 - d, slots_in_epoch |-> 432000,
       samples |-> sm, done |-> FALSE]
      : d \in {0, 1, 2, 3, 150, 9000, 216000},
        sm \in {List(<<>>), List(<<Sample(10, IntV(5))>>), List(<<Sample(1, IntV(1))>>),
                 List(<<Sample(5, IntV(0))>>)} }

InitCalc ==
    /\ cfg = Config(TRUE, 1, TRUE, 0)
    /\ pc = "calc"
    /\ loc = NoLocals
    /\ issued = <<>>
    /\ failed = {}
    /\ last = NoCall
    /\ rec = NoReport
    /\ posts = 0
    /\ sent = "none"
    /\ exitCode = -1
    /\ tr = Idle
    /\ calc \in RankInputs \cup StakeInputs \cup SkipInputs \cup ResolveInputs
                 \cup TimeInputs
    /\ twin = NoReplay

UnchangedButCalc ==
    UNCHANGED <<cfg, pc, loc, issued, failed, last, rec, posts, sent, exitCode, tr, twin>>

\* fetch_data.py:416-482 on the vote accounts of the input
ApplyRank ==
    /\ calc.kind = "rank"
    /\ ~calc.done
    /\ LET processed_validators ==
               ProcessedValidators(VoteAccountsOf(calc.credits, calc.split), IntV(CalcEpoch))
           ranked_validators == RankedValidators(processed_validators)
       IN  calc' = [kind |-> "rank", credits |-> calc.credits, split |-> calc.split,
                    done |-> TRUE,
                    processed_validators |-> processed_validators,
                    ranked_validators |-> ranked_validators,
                    found |-> [i \in 1..Len(calc.credits) |->
                                  OurValidatorData(ranked_validators, processed_validators,
                                                   IdxId(i - 1))]]
    /\ UnchangedButCalc

\* fetch_data.py:250-291 on the stake accounts of the input
ApplyStake ==
    /\ calc.kind = "stake"
    /\ ~calc.done
    /\ calc' = [kind |-> "stake", accounts |-> calc.accounts, done |-> TRUE,
                metrics |-> _calculate_stake_metrics_from_data(List(calc.accounts))]
    /\ UnchangedButCalc

\* fetch_data.py:598-615 on a result that holds the input for the identity
ApplySkip ==
    /\ calc.kind = "skip"
    /\ ~calc.done
    /\ LET block_production_info ==
               IF calc.stats = <<>> THEN Dict(<<Member(OtherId, <<1, 1>>)>>)
               ELSE Dict(<<Member(OtherId, <<1, 1>>), Member(TargetId, calc.stats)>>)
       IN  calc' = [kind |-> "skip", stats |-> calc.stats, done |-> TRUE,
                    metrics |-> SkipMetrics(block_production_info, TargetId)]
    /\ UnchangedButCalc

\* fetch_data.py:416-489, 539-550 on the vote accounts of the input, all of
\* them current: the rank, the credits and the missed credits of the target
ApplyResolve ==
    /\ calc.kind = "resolve"
    /\ ~calc.done
    /\ LET n == Len(calc.entries)
           vote_accounts_data ==
               VoteAccounts([i \in 1..n |->
                                VoteAccount(calc.entries[i].id, <<"v", Digits[i + 1]>>, i,
                                            << <<CalcEpoch, 100 + calc.entries[i].credits,
                                                 100>> >>)],
                            <<>>)
           processed_validators == ProcessedValidators(vote_accounts_data, IntV(CalcEpoch))
           ranked_validators == RankedValidators(processed_validators)
           our_validator_data ==
               OurValidatorData(ranked_validators, processed_validators, TargetId)
           rank == IF our_validator_data.rank.k = "absent"
                   THEN StrV(NA) ELSE our_validator_data.rank
           epoch_credits_earned == IntV(our_validator_data.currentEpochCreditsEarned)
       IN  calc' = [kind |-> "resolve", entries |-> calc.entries, done |-> TRUE,
                    ranked_validators |-> ranked_validators,
                    rank |-> rank,
                    vote_account |-> our_validator_data.votePubkey,
                    epoch_credits_earned |-> epoch_credits_earned,
                    missed_credits |->
                        MissedCredits(epoch_credits_earned,
                                      CreditsEarnedRank1(ranked_validators), rank)]
    /\ UnchangedButCalc

\* fetch_data.py:305-348 on the epoch position and the samples of the input
ApplyTime ==
    /\ calc.kind = "time"
    /\ ~calc.done
    /\ calc' = [kind |-> "time", slot_index |-> calc.slot_index,
                slots_in_epoch |-> calc.slots_in_epoch, samples |-> calc.samples,
                done |-> TRUE,
                progress |->
                    _calculate_epoch_progress(
                        EpochInfo(CalcEpoch, calc.slot_index, calc.slots_in_epoch,
                                  calc.slot_index),
                        calc.samples)]
    /\ UnchangedButCalc

NextCalc ==
    \/ ApplyTime
    \/ ApplyResolve
    \/ ApplyRank
    \/ ApplyStake
    \/ ApplySkip

SpecCalc == InitCalc /\ [][NextCalc]_vars

(***************************************************************************)
(* Claims about the transport layer.                                       *)
(***************************************************************************)
\* The log of a call on which every endpoint fails on every try: n posts in
\* list order, then a sleep, then n posts again, ..., no sleep at the end.
AllFailLogShape(n, retries) ==
    [i \in 1..((retries + 1) * n + retries) |->
        IF i % (n + 1) = 0 THEN [ev |-> "sleep", url |-> 0]
        ELSE [ev |-> "post", url |-> i % (n + 1)]]

LogShape(log) == [i \in 1..Len(log) |-> [ev |-> log[i].ev, url |-> log[i].url]]

IsPrefix(s, t) == Len(s) <= Len(t) /\ \A i \in 1..Len(s) : s[i] = t[i]

\* C2: in _make_rpc_request, as soon as one endpoint answers without a
\* transport error and without an RPC error field the call returns that
\* result: no later endpoint is contacted, no further pass is started and no
\* sleep happens after the success.
C2_ReturnsOnFirstSuccess ==
    tr.kind = "rpc" =>
        \A i \in 1..Len(tr.log) :
            (tr.log[i].ev = "post" /\ tr.log[i].ok) =>
                /\ i = Len(tr.log)
                /\ tr.phase = "returned"
                /\ tr.result = tr.log[i].val

C2_Witness ==
    /\ tr.kind = "rpc"
    /\ tr.phase = "returned"
    /\ Len(tr.log) >= 1
    /\ tr.log[Len(tr.log)].ok
    /\ tr.url < cfg.urls
    /\ tr.attempt < get_rpc_max_retries(cfg)

\* C3: when every endpoint fails on every try, _make_rpc_request with R
\* retries and N endpoints makes exactly (R+1)*N call attempts, pass by pass
\* in list order from the first endpoint, sleeps exactly R times (only after
\* a fully failed pass that is not the last) and only then raises.
C3_ExhaustionCounts ==
    tr.kind = "rpc" =>
        /\ IsPrefix(LogShape(tr.log), AllFailLogShape(cfg.urls, get_rpc_max_retries(cfg)))
        /\ (tr.phase = "raised") =>
              /\ LogShape(tr.log) = AllFailLogShape(cfg.urls, get_rpc_max_retries(cfg))
              /\ \A i \in 1..Len(tr.log) : ~tr.log[i].ok
              /\ EventCount(tr.log, "post") = (get_rpc_max_retries(cfg) + 1) * cfg.urls
              /\ EventCount(tr.log, "sleep") = get_rpc_max_retries(cfg)
        /\ (EventCount(tr.log, "post") = (get_rpc_max_retries(cfg) + 1) * cfg.urls
              /\ \A i \in 1..Len(tr.log) : ~tr.log[i].ok)
             => tr.phase \in {"pass_end", "raised"}

C3_Witness ==
    /\ tr.kind = "rpc"
    /\ tr.phase = "raised"
    /\ cfg.urls = 2
    /\ get_rpc_max_retries(cfg) = 1
    /\ EventCount(tr.log, "post") = 4
    /\ EventCount(tr.log, "sleep") = 1

\* C10: _execute_solana_cli_command tries each endpoint at most once, in list
\* order, with no retry pass and no sleep; it returns the output of the first
\* endpoint whose subprocess succeeds without trying later ones, and raises
\* exactly when all N endpoints have each failed once.
C10_CliSinglePass ==
    tr.kind = "cli" =>
        /\ Len(tr.log) <= cfg.urls
        /\ \A i \in 1..Len(tr.log) : tr.log[i].ev = "run" /\ tr.log[i].url = i
        /\ \A i \in 1..Len(tr.log) :
              tr.log[i].ok => (i = Len(tr.log) /\ tr.phase = "returned"
                               /\ tr.result = tr.log[i].val)
        /\ (tr.phase = "returned") => (Len(tr.log) >= 1 /\ tr.log[Len(tr.log)].ok)
        /\ (tr.phase = "raised") <=>
              (Len(tr.log) = cfg.urls /\ \A i \in 1..Len(tr.log) : ~tr.log[i].ok)

C10_Witness ==
    /\ tr.kind = "cli"
    /\ cfg.urls = 2
    /\ \/ tr.phase = "raised" /\ Len(tr.log) = 2
       \/ tr.phase = "returned" /\ Len(tr.log) = 1


\* what last_exception_per_url is to hold for an endpoint whose most recent
\* failure was of kind kind: the exception, or the RuntimeError made for a
\* body with an "error" field
SummaryOf(kind) == IF kind = "error" THEN "RuntimeError" ELSE kind

\* C22: in _make_rpc_request a timeout, an HTTP error status, another request
\* error, an undecodable body and a body with an "error" field are each
\* recorded under the endpoint and the next endpoint is tried; a body with an
\* "error" field is never returned; and the error raised in the end carries
\* for each endpoint one summary, that of its most recent failure.
C22_FailuresRecordedPerEndpoint ==
    (tr.kind = "rpc") =>
        /\ \A u \in 1..cfg.urls : tr.errs[u] = SummaryOf(tr.answered[u])
        /\ \A i \in 1..Len(tr.log) :
              (tr.log[i].ev = "post" /\ ~tr.log[i].ok) =>
                  /\ ~(i = Len(tr.log) /\ tr.phase = "returned")
                  /\ tr.answered[tr.log[i].url] # "none"
                  /\ (tr.log[i].url < cfg.urls) =>
                        IF i < Len(tr.log)
                        THEN tr.log[i + 1].ev = "post"
                             /\ tr.log[i + 1].url = tr.log[i].url + 1
                        ELSE tr.phase = "post" /\ tr.url = tr.log[i].url + 1
        /\ (tr.phase = "returned") => tr.log[Len(tr.log)].ok
        /\ (tr.phase = "raised") =>
              /\ Len(tr.summary) = cfg.urls
              /\ \A u \in 1..cfg.urls :
                    /\ tr.summary[u] = SummaryOf(tr.answered[u])
                    /\ tr.summary[u] \in RpcExceptions \cup {"RuntimeError"}

C22_Witness ==
    /\ tr.kind = "rpc"
    /\ tr.phase = "raised"
    /\ cfg.urls = 2
    /\ Len(tr.log) = 5
    /\ tr.answered = <<"error", "HTTPError">>
    /\ tr.summary = <<"RuntimeError", "HTTPError">>

(***************************************************************************)
(* Claims about a run.                                                     *)
(***************************************************************************)
Issued(name) == \E i \in 1..Len(issued) : issued[i] = name

\* the fetch failed on every endpoint in every attempt
Exhausted(name) == <<name, "exhausted">> \in failed

\* the fetch was answered with a value of the wrong shape
BadShape(name) == <<name, "shape">> \in failed

\* process_validator_data has returned
Returned == pc \in {"report", "done"}

LeaderFieldsZero(r) ==
    /\ r.leader_slots_total = 0
    /\ r.leader_slots_completed = 0
    /\ r.leader_slots_upcoming = 0
    /\ r.leader_slots_skipped = 0
    /\ r.leader_skip_rate.num = 0

C4_OnePostPerRecord ==
    (pc = "done" /\ sent \notin {"KeyError", "Unconfigured"})
    => posts = (IF rec.k = "record" THEN 1 ELSE 0)

\* C5 (as claimed): a run in which the CLI "stakes" command failed on every
\* endpoint ends with no report and no webhook POST.
C5_StakeFailureAborts ==
    (pc = "done" /\ Exhausted("stakes")) => (rec = NoReport /\ posts = 0)

\* C5 (amended): a "stakes" command that fails on every endpoint does not
\* abort the run: the stake data is the empty list, the run goes on to the
\* cluster-nodes fetch, and every status record it returns has all five stake
\* fields zero.
C5_StakeFailureDegrades ==
    Exhausted("stakes")
    => /\ pc = "fetch_cluster_nodes" \/ Issued("getClusterNodes")
       /\ AllZeroStake(loc.stake_metrics)
       /\ rec.k = "record" => AllZeroStake(rec)
       /\ (Returned /\ failed = {<<"stakes", "exhausted">>}) => rec.k = "record"

C5_Witness ==
    /\ pc = "done"
    /\ failed = {<<"stakes", "exhausted">>}
    /\ rec.k = "record"
    /\ AllZeroStake(rec)
    /\ posts = 1

\* C6 (as claimed): a run in which getRecentPerformanceSamples failed on
\* every endpoint in every attempt is not aborted by it: process_validator_data
\* goes on to the leader schedule and returns a status record.
C6_SamplesFailureDegrades ==
    Exhausted("getRecentPerformanceSamples")
    => /\ pc = "leader_schedule" \/ Issued("getLeaderSchedule")
       /\ Returned => rec.k = "record"

\* C7: if the leader-schedule fetch fails (every endpoint in every attempt,
\* or a result that is no mapping), process_validator_data returns a status
\* record whose five leader-slot fields are zero, and getBlockProduction is
\* not issued.
C7_LeaderScheduleFailureZeroes ==
    (Exhausted("getLeaderSchedule") \/ BadShape("getLeaderSchedule"))
    => /\ Returned
       /\ rec.k = "record"
       /\ LeaderFieldsZero(rec)
       /\ ~Issued("getBlockProduction")

C7_Witness ==
    /\ pc = "done"
    /\ BadShape("getLeaderSchedule")
    /\ rec.k = "record"
    /\ LeaderFieldsZero(rec)

TargetAbsent(vote_accounts_data) ==
    LET all_validators == vote_accounts_data.current \o vote_accounts_data.delinquent
    IN  \A i \in 1..Len(all_validators) :
            all_validators[i].nodePubkey # loc.validator_identity_pubkey

\* C9: when every fetch of the run succeeded with a well-formed answer and the
\* target identity is in neither the current nor the delinquent list (both
\* may be empty), process_validator_data returns a status record with rank
\* 'N/A', vote account 'N/A', activated stake 0 and credits earned 0.
C9_AbsentTargetPlaceholder ==
    (/\ Returned
     /\ failed = {}
     /\ loc.k = "locals"
     /\ IsDict(loc.vote_accounts_data)
     /\ TargetAbsent(loc.vote_accounts_data))
    => /\ rec.k = "record"
       /\ rec.rank = StrV(NA)
       /\ rec.vote_account_pubkey = NA
       /\ rec.active_stake_sol.num = 0
       /\ rec.epoch_credits = IntV(0)
       /\ rec.identity_pubkey = loc.validator_identity_pubkey

C9_Witness ==
    /\ pc = "done"
    /\ failed = {}
    /\ rec.k = "record"
    /\ loc.vote_accounts_data = VoteAccounts(<<>>, <<>>)
    /\ rec.rank = StrV(NA)
    /\ rec.vote_account_pubkey = NA
    /\ Issued("getLeaderSchedule")


\* C12 (as claimed): whenever the rank in the status record is 'N/A' (the
\* target is unranked), the missed credits in the record are 'N/A'.
C12_UnrankedMissedIsNA ==
    (rec.k = "record" /\ rec.rank = StrV(NA)) => rec.missed_credits = StrV(NA)

\* C13: if the endpoint list or the validator identity of the cluster is
\* missing from the configuration, or the endpoint list is empty,
\* process_validator_data returns None without any RPC call or CLI subprocess
\* having been issued, and no webhook POST is made.
C13_MissingConfigFailsFast ==
    (cfg \in BadConfigs) =>
        /\ issued = <<>>
        /\ last = NoCall
        /\ loc = NoLocals
        /\ rec = NoReport
        /\ posts = 0
        /\ pc \in {"resolve_config", "report", "done"}

C13_Witness ==
    /\ cfg.urls_key
    /\ cfg.identity_key
    /\ cfg.urls = 0
    /\ pc = "done"
    /\ rec = NoReport
    /\ sent = "none"

\* true once the run is past the processing of the vote accounts
\* (fetch_data.py:416-508)
PastProcessing ==
    pc \notin {"resolve_config", "fetch_vote_accounts", "fetch_validator_info",
               "fetch_epoch_info", "fetch_stake", "fetch_cluster_nodes",
               "process_validators"}

\* C14: once endpoints and identity are resolved no exception leaves
\* process_validator_data: what it comes to is None or a status record, and a
\* null vote-accounts or epoch-info result, on which the processing raises an
\* exception that is no RuntimeError, makes it return None.
C14_NoExceptionEscapes ==
    (cfg \notin BadConfigs) =>
        /\ rec.k \in {"None", "record"}
        /\ (pc = "done" /\ rec.k = "None") => (sent = "none" /\ exitCode = 0)
        /\ (PastProcessing
              /\ (BadShape("getVoteAccounts") \/ BadShape("getEpochInfo")))
           => (Returned /\ rec = NoReport)

C14_Witness ==
    /\ pc = "done"
    /\ failed = {<<"getEpochInfo", "shape">>}
    /\ Issued("getClusterNodes")
    /\ ~Issued("getBalance:identity")
    /\ rec = NoReport
    /\ exitCode = 0

\* C15: the process ends with exit code 0 whenever the run completes, also
\* when no report was generated (configuration missing, critical fetch
\* failure) and when the sender returned False; the exit code is nonzero only
\* when an exception went from report_validator_status to main.
C15_ExitCode ==
    (pc = "done") =>
        /\ exitCode \in {0, 1}
        /\ (sent \in {"none", "True", "False", "Unconfigured"}) => exitCode = 0
        /\ (rec = NoReport) => exitCode = 0
        /\ (exitCode # 0) => sent \in {"ValueError", "KeyError"}

C15_Witness ==
    /\ pc = "done"
    /\ rec.k = "record"
    /\ sent = "False"
    /\ posts = 1
    /\ exitCode = 0

\* C20 (as claimed): every status record process_validator_data returns is
\* formatted without an exception, so that (the webhook URL key being present)
\* format_and_send_status comes to a boolean.
C20_EveryRecordIsFormatted ==
    (pc = "done" /\ rec.k = "record" /\ sent # "KeyError")
    => sent \in {"True", "False", "Unconfigured"}

\* the transport call counted in last was a CLI command
LastIsCli == issued # <<>> /\ issued[Len(issued)] \in CliCommands

\* C17: every run terminates: if each request, subprocess and POST returns,
\* the run reaches a final outcome (report sent, report not sent, no report,
\* or an exception in main), and no fetch makes more than (R+1)*N calls (RPC)
\* or N calls (CLI), nor sleeps more than R times.
C17_RunTerminates ==
    /\ [](/\ last.calls <= (IF LastIsCli THEN cfg.urls
                            ELSE (get_rpc_max_retries(cfg) + 1) * cfg.urls)
          /\ last.sleeps <= (IF LastIsCli THEN 0 ELSE get_rpc_max_retries(cfg))
          /\ Len(issued) <= 11
          /\ posts <= 1)
    /\ <>(pc = "done"
          /\ sent \in {"True", "False", "Unconfigured", "none", "ValueError", "KeyError"})

C17_Witness ==
    /\ pc = "done"
    /\ cfg.urls = MaxEndpoints
    /\ issued # <<>>
    /\ issued[Len(issued)] = "getBlockProduction"
    /\ last.calls = (get_rpc_max_retries(cfg) + 1) * cfg.urls
    /\ last.sleeps = get_rpc_max_retries(cfg)
    /\ sent = "True"

FetchOrder ==
    <<"getVoteAccounts", "validator-info", "getEpochInfo", "stakes", "getClusterNodes",
      "getBalance:identity", "getBalance:vote", "getRecentPerformanceSamples",
      "getLeaderSchedule", "getBlockProduction">>

FetchPosition(name) == CHOOSE i \in 1..Len(FetchOrder) : FetchOrder[i] = name

\* the failures of a fetch that raise out of its call site
AbortingFailures ==
    {<<f, "exhausted">> : f \in {"getVoteAccounts", "validator-info", "getEpochInfo",
                                  "getClusterNodes", "getRecentPerformanceSamples"}}
        \cup {<<"validator-info", "shape">>, <<"getClusterNodes", "shape">>}

\* C21: fail-fast ordering: the fetches are issued in the order vote accounts,
\* validator registry, epoch info, stakes, cluster nodes, balances,
\* performance samples, leader schedule, block production, each at most
\* once; after an aborting fetch has failed nothing more is issued (that
\* fetch is the last one, no record is returned and no POST is made); and
\* getBlockProduction is issued only after getLeaderSchedule succeeded.
C21_FailFastOrdering ==
    /\ \A i, j \in 1..Len(issued) :
          i < j => FetchPosition(issued[i]) < FetchPosition(issued[j])
    /\ \A f \in failed \cap AbortingFailures :
          /\ issued[Len(issued)] = f[1]
          /\ Returned
          /\ rec = NoReport
          /\ posts = 0
    /\ Issued("getBlockProduction")
       => /\ Issued("getLeaderSchedule")
          /\ ~Exhausted("getLeaderSchedule")
          /\ ~BadShape("getLeaderSchedule")

C21_Witness ==
    /\ pc = "done"
    /\ issued = SubSeq(FetchOrder, 1, 5)
    /\ Exhausted("getClusterNodes")
    /\ posts = 0
    /\ sent = "none"

\* C25 (as claimed): a balance lookup never aborts the run: when a getBalance
\* call was the last fetch of a run, because it failed on every endpoint or
\* because its result carries no integer 'value', process_validator_data
\* has still returned a status record.
C25_BalanceNeverAborts ==
    (Returned /\ issued # <<>>
       /\ issued[Len(issued)] \in {"getBalance:identity", "getBalance:vote"})
    => rec.k = "record"

\* C26: getBlockProduction is issued only when the validator has a leader
\* slot with index <= the current slot index and the epoch started before
\* the current absolute slot; it asks for firstSlot = absoluteSlot -
\* slotIndex, lastSlot = absoluteSlot; when it is not issued the record has
\* skipped = 0, skip rate = 0 and completed + upcoming = total.
C26_BlockProductionQuery ==
    /\ Issued("getBlockProduction") =>
          /\ \E i \in 1..Len(loc.validator_slots_in_epoch) :
                loc.validator_slots_in_epoch[i] <= loc.epoch_info_data.slotIndex.n
          /\ loc.leader_slots_completed_count > 0
          /\ loc.epoch_info_data.absoluteSlot.n - loc.epoch_info_data.slotIndex.n
                < loc.epoch_info_data.absoluteSlot.n
          /\ Returned =>
                loc.block_production_params =
                    [identity |-> TargetId,
                     firstSlot |-> loc.epoch_info_data.absoluteSlot.n
                                     - loc.epoch_info_data.slotIndex.n,
                     lastSlot |-> loc.epoch_info_data.absoluteSlot.n]
    /\ (Returned /\ rec.k = "record" /\ ~Issued("getBlockProduction")) =>
          /\ loc.block_production_params = Null
          /\ rec.leader_slots_skipped = 0
          /\ rec.leader_skip_rate.num = 0
          /\ rec.leader_slots_completed + rec.leader_slots_upcoming
                = rec.leader_slots_total

C26_Witness ==
    /\ pc = "done"
    /\ rec.k = "record"
    /\ ~Issued("getBlockProduction")
    /\ ~Exhausted("getLeaderSchedule")
    /\ loc.epoch_info_data.slotIndex = IntV(0)
    /\ loc.validator_slots_in_epoch = <<0, 10, 60>>
    /\ rec.leader_slots_completed = 1
    /\ rec.leader_slots_upcoming = 2
    /\ rec.leader_slots_skipped = 0

\* the registry entries of the run whose identity is that of the target
MatchingInfos ==
    SelectSeq(loc.validator_infos_list.items,
              LAMBDA e : e.identityPubkey = loc.identity)

\* C27 (as claimed): the name in the status record is the registry name of
\* the entry that matches the identity of the target, and the first 12
\* characters of the identity followed by '...' whenever that name is absent
\* (no matching entry, or a matching entry without a name), empty or 'null'.
C27_DisplayName ==
    (Returned /\ rec.k = "record") =>
        rec.validator_name =
            IF MatchingInfos = <<>> THEN SubSeq(loc.identity, 1, 12) \o <<".", ".", ".">>
            ELSE IF MatchingInfos[1].name.k # "str"
                    \/ MatchingInfos[1].name.s \in {<<>>, <<"n", "u", "l", "l">>}
            THEN SubSeq(loc.identity, 1, 12) \o <<".", ".", ".">>
            ELSE MatchingInfos[1].name.s

(***************************************************************************)
(* Claims about the calculations.                                          *)
(***************************************************************************)
\* index (from 1) in the input of the validator with this node identity
InputIndex(id) == CHOOSE i \in 1..Len(calc.credits) : IdxId(i - 1) = id

\* C11: the ranked validators are exactly the validators of current followed
\* by delinquent that earned more than 0 credits; they carry the ranks 1..k
\* in order, credits earned never increase with the rank, validators with
\* equal credits keep their input order, and a validator with credits <= 0
\* gets no rank.  Credits [50, 0, 100, -5, 100] give idx2, idx4, idx0.
C11_RankAssignment ==
    (calc.kind = "rank" /\ calc.done) =>
        LET ranked == calc.ranked_validators
            k == Len(ranked)
            n == Len(calc.credits)
        IN  /\ {ranked[i].nodePubkey : i \in 1..k}
                 = {IdxId(i - 1) : i \in {j \in 1..n : calc.credits[j] > 0}}
            /\ k = Cardinality({j \in 1..n : calc.credits[j] > 0})
            /\ \A i \in 1..k :
                  /\ ranked[i].rank = IntV(i)
                  /\ ranked[i].currentEpochCreditsEarned
                       = calc.credits[InputIndex(ranked[i].nodePubkey)]
            /\ \A i \in 1..k, j \in 1..k :
                  i < j =>
                    /\ ranked[i].currentEpochCreditsEarned
                         >= ranked[j].currentEpochCreditsEarned
                    /\ (ranked[i].currentEpochCreditsEarned
                          = ranked[j].currentEpochCreditsEarned)
                       => InputIndex(ranked[i].nodePubkey) < InputIndex(ranked[j].nodePubkey)
            /\ \A j \in 1..n :
                  IF calc.credits[j] > 0
                  THEN calc.found[j].rank \in {IntV(r) : r \in 1..k}
                  ELSE calc.found[j].rank = StrV(NA)
            /\ (calc.credits = <<50, 0, 100, -5, 100>>)
               => [i \in 1..k |-> ranked[i].nodePubkey] = <<IdxId(2), IdxId(4), IdxId(0)>>

C11_Witness ==
    /\ calc.kind = "rank"
    /\ calc.done
    /\ calc.credits = <<50, 0, 100, -5, 100>>
    /\ calc.split = 2
    /\ Len(calc.ranked_validators) = 3
    /\ calc.ranked_validators[2].nodePubkey = IdxId(4)
    /\ calc.ranked_validators[2].rank = IntV(2)

\* amount of a field of the i-th stake account of the input, 0 when missing
InputStake(i, field) ==
    IF calc.accounts[i][field] = Absent THEN 0 ELSE calc.accounts[i][field].n

\* sum of an integer function over 1..n
RECURSIVE SumTo(_, _)
SumTo(f, n) == IF n = 0 THEN 0 ELSE SumTo(f, n - 1) + f[n]

\* C18: for every list of stake accounts (a missing field counts as 0), in
\* lamports: activating is the sum of max(0, delegated_i - active_i), total
\* active, delegated and deactivating are the plain sums, net change is
\* activating - deactivating; for the empty list the five values are zero.
C18_StakeMetrics ==
    (calc.kind = "stake" /\ calc.done) =>
        LET n == Len(calc.accounts)
            m == calc.metrics
            active == SumTo([i \in 1..n |-> InputStake(i, "activeStake")], n)
            delegated == SumTo([i \in 1..n |-> InputStake(i, "delegatedStake")], n)
            deactivating == SumTo([i \in 1..n |-> InputStake(i, "deactivatingStake")], n)
            activating ==
                SumTo([i \in 1..n |->
                         LET d == InputStake(i, "delegatedStake") - InputStake(i, "activeStake")
                         IN  IF d > 0 THEN d ELSE 0], n)
        IN  /\ m.total_active_stake_sol = Frac(active, LAMPORTS_PER_SOL)
            /\ m.total_delegated_stake_sol = Frac(delegated, LAMPORTS_PER_SOL)
            /\ m.stake_deactivating_sol = Frac(deactivating, LAMPORTS_PER_SOL)
            /\ m.stake_activating_sol = Frac(activating, LAMPORTS_PER_SOL)
            /\ m.net_stake_change_sol.num
                 = m.stake_activating_sol.num - m.stake_deactivating_sol.num
            /\ m.net_stake_change_sol.den = LAMPORTS_PER_SOL
            /\ m.stake_activating_sol.num >= 0
            /\ (n = 0) => AllZeroStake(m)

C18_Witness ==
    /\ calc.kind = "stake"
    /\ calc.done
    /\ Len(calc.accounts) = 2
    /\ calc.accounts[1] = StakeAccount(IntV(5), IntV(2), Absent)
    /\ calc.accounts[2] = StakeAccount(Absent, IntV(5), IntV(2))
    /\ calc.metrics.stake_activating_sol.num = 5
    /\ calc.metrics.net_stake_change_sol.num = 3

\* C19: when the block-production result gives the validator assigned slots
\* A > 0 and produced blocks P, skipped = A - P and rate = skipped / A * 100
\* (A = 20, P = 18: skipped 2, rate 10); when A = 0, skipped = 0 and rate = 0;
\* no result makes the rate a division by zero.
C19_SkipRate ==
    (calc.kind = "skip" /\ calc.done) =>
        LET m == calc.metrics
        IN  /\ m.rate.den # 0
            /\ (Len(calc.stats) = 2 /\ calc.stats[1] > 0) =>
                  /\ m.skipped = calc.stats[1] - calc.stats[2]
                  /\ m.rate.num * calc.stats[1] = m.skipped * 100 * m.rate.den
            /\ (Len(calc.stats) = 2 /\ calc.stats[1] = 0) =>
                  (m.skipped = 0 /\ m.rate.num = 0)
            /\ (Len(calc.stats) # 2) => (m.skipped = 0 /\ m.rate.num = 0)
            /\ (calc.stats = <<20, 18>>) =>
                  (m.skipped = 2 /\ m.rate.num = 10 * m.rate.den)

C19_Witness ==
    /\ calc.kind = "skip"
    /\ calc.done
    /\ calc.stats = <<20, 18>>
    /\ calc.metrics.skipped = 2
\* indices of the input entries that carry the identity of the run and earned
\* credits in the epoch
TargetPositive ==
    {i \in 1..Len(calc.entries) :
        calc.entries[i].id = TargetId /\ calc.entries[i].credits > 0}

\* the most credits an entry of the target earned, and the first entry that did
TargetBest == CHOOSE m \in {calc.entries[i].credits : i \in TargetPositive} :
                  \A i \in TargetPositive : calc.entries[i].credits <= m

TargetBestIndex ==
    CHOOSE i \in TargetPositive :
        /\ calc.entries[i].credits = TargetBest
        /\ \A j \in TargetPositive : calc.entries[j].credits = TargetBest => i <= j

\* C23: the ranked subset is searched before the full set: the rank of the
\* target is a positive integer, its 1-based position among the entries
\* with positive credits in descending order, exactly if some entry with the
\* identity of the target earned credits > 0; it is 'N/A' if the target is
\* found only with credits <= 0 and if it is not found at all.
C23_TargetResolution ==
    (calc.kind = "resolve" /\ calc.done) =>
        IF TargetPositive # {}
        THEN /\ calc.rank.k = "int"
             /\ calc.rank.n >= 1
             /\ calc.rank.n =
                   1 + Cardinality({j \in 1..Len(calc.entries) :
                                       \/ calc.entries[j].credits > TargetBest
                                       \/ /\ calc.entries[j].credits = TargetBest
                                          /\ j < TargetBestIndex})
             /\ calc.ranked_validators[calc.rank.n].nodePubkey = TargetId
             /\ calc.vote_account = <<"v", Digits[TargetBestIndex + 1]>>
        ELSE calc.rank = StrV(NA)

C23_Witness ==
    /\ calc.kind = "resolve"
    /\ calc.done
    /\ calc.entries = <<[id |-> TargetId, credits |-> 0],
                        [id |-> OtherId, credits |-> 100],
                        [id |-> TargetId, credits |-> 50]>>
    /\ calc.rank = IntV(2)
\* the most credits any entry of the input earned
TopCredits == CHOOSE m \in {calc.entries[i].credits : i \in 1..Len(calc.entries)} :
                  \A i \in 1..Len(calc.entries) : calc.entries[i].credits <= m

\* C24: when the target is ranked, its missed credits are the credits earned
\* by the rank-1 entry minus its own; they are never negative, and they are
\* 0 exactly when the target earned as much as the top entry.
C24_MissedCredits ==
    (calc.kind = "resolve" /\ calc.done /\ calc.rank.k = "int") =>
        /\ TargetPositive # {}
        /\ calc.epoch_credits_earned = IntV(TargetBest)
        /\ calc.ranked_validators[1].currentEpochCreditsEarned = TopCredits
        /\ calc.missed_credits = IntV(TopCredits - TargetBest)
        /\ calc.missed_credits.n >= 0
        /\ (calc.missed_credits.n = 0) <=> (TargetBest = TopCredits)

C24_Witness ==
    /\ calc.kind = "resolve"
    /\ calc.done
    /\ calc.entries = <<[id |-> TargetId, credits |-> 50],
                        [id |-> OtherId, credits |-> 100],
                        [id |-> OtherId, credits |-> 50]>>
    /\ calc.rank = IntV(2)
    /\ calc.missed_credits = IntV(50)
\* the remaining time of the input in whole seconds
WholeSecondsLeft ==
    ((calc.slots_in_epoch - calc.slot_index) * calc.progress.avg_slot_time_seconds.num)
        \div calc.progress.avg_slot_time_seconds.den

\* C28 (as claimed): in the remaining time of _calculate_epoch_progress a
\* unit with value zero is never rendered, the seconds are rendered only
\* when days, hours and minutes are all zero, and when days, hours, minutes
\* and seconds are all zero as whole numbers the string is 'Nearly complete'
\* if percent complete exceeds 99.9 and 'Calculating...' otherwise.
C28_RemainingTime ==
    (calc.kind = "time" /\ calc.done) =>
        LET time_left == calc.progress.time_left
        IN  /\ (time_left.k = "parts") =>
                  /\ \A i \in 1..Len(time_left.parts) : time_left.parts[i].n > 0
                  /\ \A i \in 1..Len(time_left.parts) :
                        time_left.parts[i].unit = "sec"
                            => (Len(time_left.parts) = 1
                                /\ WholeSecondsLeft < SecondsPerMinute)
            /\ (WholeSecondsLeft = 0) =>
                  /\ time_left.k = "text"
                  /\ time_left.text =
                        IF calc.slot_index * 1000 > 999 * calc.slots_in_epoch
                        THEN "Nearly complete" ELSE "Calculating..."

=============================================================================
